---- MODULE Spec2Model ----
(***************************************************************************)
(* LunaJoy matching platform.                                              *)
(*                                                                         *)
(* The matching engine (filters, scoring, clustering, collaborative        *)
(* filtering, orchestration) is modelled from the algorithm listing        *)
(* "Matching Logic & Algorithms"; the session and the endpoint choice are  *)
(* modelled from the React frontend (UserContext.jsx, App.js).             *)
(*                                                                         *)
(* Scores are exact rationals kept in fixed point: a score s is the        *)
(* integer s * ONE.  ONE is divisible by every denominator the listing's   *)
(* arithmetic can produce within the model's data, so no operation rounds. *)
(***************************************************************************)
EXTENDS Integers, Sequences, FiniteSets, TLC

\* ------------------------------------------------------------------------
\* Fixed-point arithmetic
\* ------------------------------------------------------------------------

ONE == 2^9 * 5^7 * 3

\* n/d as a score
Frac(n, d) == (ONE \div d) * n

\* x * n/d
Mul(x, n, d) == (x \div d) * n

Min(a, b) == IF a < b THEN a ELSE b

RECURSIVE SumSeq(_)
SumSeq(s) == IF s = <<>> THEN 0 ELSE Head(s) + SumSeq(Tail(s))

\* mean(scores) of a non-empty sequence
mean(s) == SumSeq(s) \div Len(s)

\* A set of integers in ascending order
RECURSIVE SortedSeq(_)
SortedSeq(S) ==
    IF S = {} THEN <<>>
    ELSE LET m == CHOOSE x \in S : \A y \in S : x <= y
         IN  <<m>> \o SortedSeq(S \ {m})

SeqRange(s) == {s[i] : i \in 1..Len(s)}

\* The sum of f[x] over x in S
RECURSIVE SumOver(_, _)
SumOver(f, S) ==
    IF S = {} THEN 0
    ELSE LET x == CHOOSE y \in S : TRUE
         IN  f[x] + SumOver(f, S \ {x})

Prefix(s, k) == SubSeq(s, 1, Min(k, Len(s)))

\* ------------------------------------------------------------------------
\* Data: clinicians and users
\* ------------------------------------------------------------------------

NumClinicians == 6

ClinicianIds == 1..NumClinicians

States == {"CA", "TX"}
AppointmentTypes == {"therapy", "medication"}
Needs == {"anxiety", "trauma"}
Providers == {"Aetna", "Cigna"}
NoInsurance == ""

\* A clinician that is new, free, available and strong in every specialty
StarProfile ==
    [license_states |-> {"CA", "TX"}, appointment_types |-> {"therapy", "medication"},
     accepting_new_patients |-> TRUE, immediate_availability |-> TRUE,
     availability_score |-> Frac(9, 10),
     current_patients |-> 2, max_capacity |-> 10,
     specialties |-> {"anxiety", "trauma"},
     success_by_specialty |-> [n \in {"anxiety", "trauma"} |-> Frac(9, 10)],
     days_since_created |-> 10, gender |-> "female", languages |-> {"English"},
     primary_specialty |-> "anxiety",
     has_embeddings |-> TRUE, cosine_sim |-> Frac(8, 10)]

\* A long-standing clinician close to capacity
BusyProfile ==
    [license_states |-> {"CA"}, appointment_types |-> {"therapy", "medication"},
     accepting_new_patients |-> TRUE, immediate_availability |-> FALSE,
     availability_score |-> Frac(3, 10),
     current_patients |-> 9, max_capacity |-> 10,
     specialties |-> {"anxiety"},
     success_by_specialty |-> [n \in {} |-> 0],
     days_since_created |-> 400, gender |-> "male", languages |-> {"English"},
     primary_specialty |-> "anxiety",
     has_embeddings |-> FALSE, cosine_sim |-> 0]

\* A clinician who fails a hard filter in California (licensed in Texas only)
AwayProfile ==
    [license_states |-> {"TX"}, appointment_types |-> {"therapy"},
     accepting_new_patients |-> TRUE, immediate_availability |-> TRUE,
     availability_score |-> Frac(6, 10),
     current_patients |-> 6, max_capacity |-> 10,
     specialties |-> {"trauma"},
     success_by_specialty |-> [n \in {"trauma"} |-> Frac(5, 10)],
     days_since_created |-> 400, gender |-> "female", languages |-> {"English"},
     primary_specialty |-> "trauma",
     has_embeddings |-> FALSE, cosine_sim |-> 0]

Profiles == {StarProfile, BusyProfile, AwayProfile}

\* ------------------------------------------------------------------------
\* Filtering logic
\* ------------------------------------------------------------------------

\* The configured threshold of the early termination; the listing names it
\* without giving its value
MIN_RESULTS == 2

\* Filters work on sequences of clinician ids over a pool id -> record.
filter_by_state(pool, clinicians, user_state) ==
    LET keep(c) == user_state \in pool[c].license_states
    IN  SelectSeq(clinicians, keep)

filter_by_appointment_type(pool, clinicians, type) ==
    LET keep(c) == type \in pool[c].appointment_types
    IN  SelectSeq(clinicians, keep)

filter_accepting_patients(pool, clinicians) ==
    LET keep(c) == pool[c].accepting_new_patients
    IN  SelectSeq(clinicians, keep)

\* Early termination: the state filter runs first and the current set is
\* returned as soon as it holds fewer than MIN_RESULTS clinicians; the other
\* hard filters follow in the listed order under the same rule.
apply_filters_optimized(pool, clinicians, filters) ==
    LET by_state == IF filters.state # ""
                    THEN filter_by_state(pool, clinicians, filters.state)
                    ELSE clinicians
        by_type  == filter_by_appointment_type(pool, by_state, filters.appointment_type)
    IN  IF filters.state # "" /\ Len(by_state) < MIN_RESULTS THEN by_state
        ELSE IF Len(by_type) < MIN_RESULTS THEN by_type
        ELSE filter_accepting_patients(pool, by_type)

\* Hard filters of the matching strategies
filter_by_requirements(pool, all_clinicians, user) ==
    apply_filters_optimized(pool, all_clinicians, user)

PassesHardFilters(clinician, prefs) ==
    /\ prefs.state \in clinician.license_states
    /\ prefs.appointment_type \in clinician.appointment_types
    /\ clinician.accepting_new_patients

\* ------------------------------------------------------------------------
\* Scoring components
\* ------------------------------------------------------------------------

score_availability(clinician, user) ==
    IF user.urgency_level = "immediate"
    THEN (IF clinician.immediate_availability THEN Frac(1, 1) ELSE Frac(2, 10))
    ELSE LET base == clinician.availability_score
         IN  IF clinician.accepting_new_patients
             THEN Min(base + Frac(2, 10), Frac(1, 1))
             ELSE base

\* The first 8 hex digits of md5(f"{clinician_id}{insurance}") as a pair
\* <<high 16 bits, low 16 bits>>, computed with hashlib for the model's ids.
Md5Prefix ==
    [c \in 1..8 |->
      [p \in Providers |->
        CASE c = 1 /\ p = "Aetna" -> <<19126, 24461>>
          [] c = 1 /\ p = "Cigna" -> <<27435, 53069>>
          [] c = 2 /\ p = "Aetna" -> <<56501, 21863>>
          [] c = 2 /\ p = "Cigna" -> <<68, 42161>>
          [] c = 3 /\ p = "Aetna" -> <<10220, 57758>>
          [] c = 3 /\ p = "Cigna" -> <<27803, 51420>>
          [] c = 4 /\ p = "Aetna" -> <<34253, 26662>>
          [] c = 4 /\ p = "Cigna" -> <<20364, 40458>>
          [] c = 5 /\ p = "Aetna" -> <<29251, 41501>>
          [] c = 5 /\ p = "Cigna" -> <<27792, 52508>>
          [] c = 6 /\ p = "Aetna" -> <<7625, 47635>>
          [] c = 6 /\ p = "Cigna" -> <<34132, 57141>>
          [] c = 7 /\ p = "Aetna" -> <<46668, 52296>>
          [] c = 7 /\ p = "Cigna" -> <<22186, 53657>>
          [] c = 8 /\ p = "Aetna" -> <<52848, 1707>>
          [] c = 8 /\ p = "Cigna" -> <<9583, 56478>>]]

deterministic_hash(clinician_id, insurance) == Md5Prefix[clinician_id][insurance]

\* (hash_val % 100) < base_probability, hash_val = hi * 65536 + lo
simulate_insurance_acceptance(clinician_id, insurance) ==
    LET hash_val == deterministic_hash(clinician_id, insurance)
        base_probability == IF insurance \in {"Aetna", "Blue Cross"} THEN 85 ELSE 70
    IN  (((hash_val[1] % 100) * (65536 % 100) + hash_val[2]) % 100) < base_probability

\* Mutant: the decision is drawn per user, not per (clinician, provider)
score_insurance_per_user(clinician_id, user) ==
    IF user.insurance_provider = NoInsurance
    THEN Frac(1, 2)
    ELSE IF simulate_insurance_acceptance(clinician_id, user.insurance_provider)
                = (user.user_id = "u0")
         THEN Frac(1, 1) ELSE 0

score_insurance(clinician_id, user) ==
    IF user.insurance_provider = NoInsurance
    THEN Frac(1, 2)
    ELSE IF simulate_insurance_acceptance(clinician_id, user.insurance_provider)
         THEN Frac(1, 1) ELSE 0

\* Mutant: a user without clinical needs scores 0 instead of the neutral 0.5
score_specialties_basic_zero(clinician, user) ==
    LET user_needs == user.clinical_needs
        clinician_specs == clinician.specialties
        overlap == user_needs \cap clinician_specs
    IN  IF user_needs = {} THEN 0
        ELSE Frac(Cardinality(overlap), Cardinality(user_needs))

score_specialties_basic(clinician, user) ==
    LET user_needs == user.clinical_needs
        clinician_specs == clinician.specialties
        overlap == user_needs \cap clinician_specs
    IN  IF user_needs = {} THEN Frac(1, 2)
        ELSE Frac(Cardinality(overlap), Cardinality(user_needs))

score_specialties_enhanced(clinician, user) ==
    LET base_score == score_specialties_basic(clinician, user)
        rated == user.clinical_needs \cap DOMAIN clinician.success_by_specialty
        avg_success == SumOver(clinician.success_by_specialty, rated)
                           \div Cardinality(rated)
    IN  IF rated # {}
        THEN Mul(base_score, 6, 10) + Mul(avg_success, 4, 10)
        ELSE base_score

score_specialties_ml(clinician, user) ==
    LET enhanced_score == score_specialties_enhanced(clinician, user)
    IN  IF clinician.has_embeddings
        THEN Mul(enhanced_score, 5, 10) + Mul(clinician.cosine_sim, 5, 10)
        ELSE enhanced_score

\* Mutant: the first threshold is inclusive
score_load_balance_inclusive(clinician) ==
    LET cur == clinician.current_patients
        cap == clinician.max_capacity
    IN  IF 10 * cur <= 5 * cap THEN Frac(1, 1)
        ELSE IF 10 * cur < 7 * cap THEN Frac(8, 10)
        ELSE IF 100 * cur < 85 * cap THEN Frac(6, 10)
        ELSE Frac(3, 10)

score_load_balance(clinician) ==
    LET cur == clinician.current_patients
        cap == clinician.max_capacity
    IN  IF 10 * cur < 5 * cap THEN Frac(1, 1)
        ELSE IF 10 * cur < 7 * cap THEN Frac(8, 10)
        ELSE IF 100 * cur < 85 * cap THEN Frac(6, 10)
        ELSE Frac(3, 10)

\* Gender and language are soft preferences: neutral 0.5, raised by a match.
score_preferences(clinician, user) ==
    Frac(1, 2)
    + (IF user.gender_preference = clinician.gender THEN Frac(1, 4) ELSE 0)
    + (IF user.language \in clinician.languages THEN Frac(1, 4) ELSE 0)

\* ------------------------------------------------------------------------
\* Weight configurations (hundredths) and the scoring formula
\* ------------------------------------------------------------------------

WEIGHTS_URGENT ==
    [availability |-> 40, insurance |-> 20, specialties |-> 20,
     load_balance |-> 10, preferences |-> 10]

\* Mutant: the flexible profile gives load balance the urgent profile's weight
WEIGHTS_FLEXIBLE_light_load ==
    [availability |-> 25, insurance |-> 25, specialties |-> 25,
     load_balance |-> 10, preferences |-> 10]

WEIGHTS_FLEXIBLE ==
    [availability |-> 25, insurance |-> 25, specialties |-> 25,
     load_balance |-> 15, preferences |-> 10]

NEW_CLINICIAN_DAYS == 30

is_new_clinician(clinician) == clinician.days_since_created < NEW_CLINICIAN_DAYS

\* clinician.load_ratio > 0.85
is_overloaded(clinician) == 100 * clinician.current_patients > 85 * clinician.max_capacity

\* Score = sum of weight x factor, the profile chosen by the urgency level
weighted_sum(clinician_id, clinician, user, specialties_score) ==
    LET w == IF user.urgency_level = "immediate" THEN WEIGHTS_URGENT ELSE WEIGHTS_FLEXIBLE
    IN  Mul(score_availability(clinician, user), w.availability, 100)
        + Mul(score_insurance(clinician_id, user), w.insurance, 100)
        + Mul(specialties_score, w.specialties, 100)
        + Mul(score_load_balance(clinician), w.load_balance, 100)
        + Mul(score_preferences(clinician, user), w.preferences, 100)

\* New clinician boost, then overload penalty
apply_adjustments(clinician, score) ==
    LET boosted == IF is_new_clinician(clinician) THEN Mul(score, 11, 10) ELSE score
    IN  IF is_overloaded(clinician) THEN Mul(boosted, 7, 10) ELSE boosted

\* tier "basic" uses the basic specialty formula, "ml" the history-aware one
calculate_content_score(clinician_id, clinician, user, tier) ==
    LET spec_score == IF tier = "ml" THEN score_specialties_ml(clinician, user)
                      ELSE score_specialties_basic(clinician, user)
    IN  apply_adjustments(clinician,
                          weighted_sum(clinician_id, clinician, user, spec_score))

\* ------------------------------------------------------------------------
\* Ranking helpers
\* ------------------------------------------------------------------------

\* a ranks before b: higher score first, ties by clinician_id ascending
RanksBefore(a, b) ==
    \/ a.score > b.score
    \/ a.score = b.score /\ a.clinician_id < b.clinician_id

RECURSIVE RankSet(_)
RankSet(S) ==
    IF S = {} THEN <<>>
    ELSE LET m == CHOOSE x \in S : \A y \in S \ {x} : RanksBefore(x, y)
         IN  <<m>> \o RankSet(S \ {m})

sort_by_score(matches) == RankSet(SeqRange(matches))

top_k(matches, k) == Prefix(sort_by_score(matches), k)

IsRanked(matches) ==
    \A i \in 1..Len(matches) - 1 : RanksBefore(matches[i], matches[i + 1])

ScoreOf(matches, c) ==
    LET i == CHOOSE j \in 1..Len(matches) : matches[j].clinician_id = c
    IN  matches[i].score

IdsOf(matches) == {matches[i].clinician_id : i \in 1..Len(matches)}

\* ------------------------------------------------------------------------
\* User clustering (8 clusters)
\* ------------------------------------------------------------------------

CLUSTERS == 0..7

has_insurance(user) == user.insurance_provider # NoInsurance

\* The rules after the first three, in priority order
assign_cluster_more_rules(user) ==
    IF ~has_insurance(user) /\ user.urgency_level = "flexible" THEN 3
    ELSE IF user.clinical_needs \cap {"couples", "family"} # {} THEN 4
    ELSE IF user.therapy_experience = "first_time"
            /\ user.clinical_needs \cap {"anxiety", "stress"} # {} THEN 0
    ELSE IF user.therapy_experience = "experienced"
            /\ Cardinality(user.clinical_needs) >= 2 THEN 1
    ELSE 7

\* Mutant: the trauma rule is tried before the medication rule
assign_cluster_trauma_first(user) ==
    IF "trauma" \in user.clinical_needs THEN 6
    ELSE IF user.appointment_type = "medication" THEN 5
    ELSE IF user.urgency_level = "immediate" /\ has_insurance(user) THEN 2
    ELSE assign_cluster_more_rules(user)

assign_cluster(user) ==
    IF user.appointment_type = "medication" THEN 5
    ELSE IF "trauma" \in user.clinical_needs THEN 6
    ELSE IF user.urgency_level = "immediate" /\ has_insurance(user) THEN 2
    ELSE assign_cluster_more_rules(user)

\* ------------------------------------------------------------------------
\* Collaborative filtering
\* ------------------------------------------------------------------------

\* Interaction score mapping, in tenths
ACTION_SCORES ==
    [booked |-> 10, contacted |-> 7, clicked |-> 4, viewed |-> 2,
     ignored |-> 0, rejected |-> -5]

Actions == DOMAIN ACTION_SCORES

interaction_to_score(interaction) == Frac(ACTION_SCORES[interaction.action], 10)

EmptyDict == [x \in {} |-> 0]

\* dict[key] = value
DictPut(dict, key, value) == [x \in DOMAIN dict \cup {key} |->
                                 IF x = key THEN value ELSE dict[x]]

Max(a, b) == IF a > b THEN a ELSE b

\* Mutant: a clinician nobody rated is predicted 0 instead of the neutral 0.5
predict_scores_zero_default(matrix, similars, ids) ==
    [clinician_id \in ids |->
        LET raters == {u \in similars :
                          u \in DOMAIN matrix /\ clinician_id \in DOMAIN matrix[u]}
            column == [u \in raters |-> matrix[u][clinician_id]]
        IN  IF raters # {}
            THEN SumOver(column, raters) \div Cardinality(raters)
            ELSE 0]

\* predictions[clinician_id] = mean(scores) if scores else 0.5
predict_scores(matrix, similars, ids) ==
    [clinician_id \in ids |->
        LET raters == {u \in similars :
                          u \in DOMAIN matrix /\ clinician_id \in DOMAIN matrix[u]}
            column == [u \in raters |-> matrix[u][clinician_id]]
        IN  IF raters # {}
            THEN SumOver(column, raters) \div Cardinality(raters)
            ELSE Frac(1, 2)]

\* final_score = 0.6 x content + 0.4 x cf
hybrid_score(content_score, cf_prediction) ==
    Mul(content_score, 6, 10) + Mul(cf_prediction, 4, 10)

\* ------------------------------------------------------------------------
\* Diversity
\* ------------------------------------------------------------------------

attributes_of(clinician) == {clinician.gender, clinician.primary_specialty}

\* The factor in tenths: at most 1, lower the more attributes were already seen
calculate_diversity(clinician, seen_attributes) ==
    10 - Cardinality(attributes_of(clinician) \cap seen_attributes)

update_seen(clinician, seen_attributes) ==
    seen_attributes \cup attributes_of(clinician)

TOP_UNCHANGED == 3

\* The loop of apply_diversity over matches[i..], seen_attributes carried
\* along; the first `unchanged` matches keep their score
RECURSIVE diversity_loop(_, _, _, _, _)
diversity_loop(pool, matches, i, seen_attributes, unchanged) ==
    IF i > Len(matches) THEN <<>>
    ELSE LET match == matches[i]
             clinician == pool[match.clinician_id]
             diversity_score == calculate_diversity(clinician, seen_attributes)
             adjusted == IF i <= unchanged THEN match
                         ELSE [match EXCEPT !.score = Mul(match.score, diversity_score, 10)]
         IN  <<adjusted>> \o
             diversity_loop(pool, matches, i + 1,
                            update_seen(clinician, seen_attributes), unchanged)

\* Mutant: the guard of the loop is off by one (top 2 unchanged)
apply_diversity_top2(pool, matches) ==
    sort_by_score(diversity_loop(pool, matches, 1, {}, TOP_UNCHANGED - 1))

apply_diversity(pool, matches) ==
    sort_by_score(diversity_loop(pool, matches, 1, {}, TOP_UNCHANGED))

\* ------------------------------------------------------------------------
\* State
\* ------------------------------------------------------------------------

VARIABLES
    request,            \* the request: registration type, stated preferences, limit
    pool,               \* clinician_id -> clinician record (the data loader's cache)
    pc,                 \* position of the running operation
    candidates,         \* clinician ids that came out of the filter stage
    matches,            \* the match list: <<[clinician_id, score], ...>>
    base_matches,       \* match_basic: the anonymous baseline
    cluster_id,         \* match_basic: the request's cluster (-1 before assignment)
    cluster_favorites,  \* cluster id -> set of popular clinician ids
    cf_predictions,     \* match_complete: clinician_id -> predicted score
    content_scores,     \* match_complete: clinician_id -> content score
    user_item_matrix,   \* user_id -> clinician_id -> interaction score
    similar_users,      \* find_similar_users(request)
    pre_diversity,      \* the match list as it entered apply_diversity
    all_interactions,   \* build_user_item_matrix: the interactions to fold
    fold_pos,           \* build_user_item_matrix: index of the next interaction
    user,               \* UserProvider: user
    isAuthenticated,    \* UserProvider: isAuthenticated
    loading,            \* UserProvider: loading
    mounted,            \* UserProvider: the mount effect has run
    localStorage,       \* the browser's localStorage
    pending,            \* user ids of the login calls awaiting userAPI.getUser
    last_request,       \* the matching endpoint handleSearch called last
    insurance_log,      \* the insurance evaluations made so far, in order
    load_result,        \* load-balance score and adjusted score of a clinician
    specialties_score,  \* result of score_specialties_basic
    currentView,        \* App: currentView
    searchResults,      \* App: searchResults
    searching,          \* App: loading (the search spinner)
    error,              \* App: error
    in_flight,          \* the handleSearch calls awaiting the matching API
    login_result,       \* what the login call that resolved last returned
    user_fetches,       \* user id -> GET /users/{id} requests of its pending login
    staged,             \* the background refresh's private copy of the reference data
    showLoginModal,     \* App: showLoginModal
    selectedClinician,  \* App: selectedClinician (0 for null)
    showDetailModal,    \* App: showDetailModal
    tracked,            \* the interaction-tracking requests sent, in order
    searchParams,       \* App: searchParams
    searchForm,         \* SearchForm: its state, its timers, its onSearch calls
    loginModal,         \* LoginModal: its state and the position of handleSubmit
    clinicianList       \* ClinicianList: its detail state and the requests it sent

engineVars == <<request, pool, pc, candidates, matches, base_matches, cluster_id,
                cluster_favorites, cf_predictions, content_scores,
                user_item_matrix, similar_users, pre_diversity>>

buildVars == <<all_interactions, fold_pos>>

sessionVars == <<user, isAuthenticated, loading, mounted, localStorage, pending,
                 last_request>>

insuranceVars == <<insurance_log>>

loadVars == <<load_result, specialties_score>>

backendVars == <<insuranceVars, loadVars>>

appVars == <<currentView, searchResults, searching, error, in_flight, searchParams>>

loginVars == <<login_result, user_fetches>>

refreshVars == <<staged>>

interactVars == <<showLoginModal, selectedClinician, showDetailModal, tracked>>

componentVars == <<searchForm, loginModal, clinicianList>>

otherVars == <<backendVars, appVars, loginVars, refreshVars, interactVars,
               componentVars>>

vars == <<engineVars, buildVars, sessionVars, otherVars>>

\* ------------------------------------------------------------------------
\* Matching orchestrator
\* ------------------------------------------------------------------------

TOP_K_ANONYMOUS == 5
TOP_K_DEFAULT == 9

AllClinicians == SortedSeq(ClinicianIds)

\* for clinician in candidates: score = calculate_content_score(clinician, ...)
score_candidates(clinicians, ids, u, tier) ==
    [i \in 1..Len(ids) |->
        [clinician_id |-> ids[i],
         score |-> calculate_content_score(ids[i], clinicians[ids[i]], u, tier)]]

match_anonymous(clinicians, u) ==
    LET filtered == filter_by_requirements(clinicians, AllClinicians, u)
    IN  top_k(score_candidates(clinicians, filtered, u, "basic"), TOP_K_ANONYMOUS)

get_cluster_favorites(cluster) == cluster_favorites[cluster]

\* Mutant: the membership test is dropped, every baseline match is boosted
boost_cluster_matches_all(base, cluster_popular) ==
    [i \in 1..Len(base) |-> [base[i] EXCEPT !.score = Mul(base[i].score, 115, 100)]]

\* for match in base_matches: if match.clinician_id in cluster_popular: score *= 1.15
boost_cluster_matches(base, cluster_popular) ==
    [i \in 1..Len(base) |->
        IF base[i].clinician_id \in cluster_popular
        THEN [base[i] EXCEPT !.score = Mul(base[i].score, 115, 100)]
        ELSE base[i]]

\* top-K of the registered strategies: the requested limit, 9 by default
result_limit(u) == IF u.limit # 0 THEN u.limit ELSE TOP_K_DEFAULT

\* match_basic as one computation: baseline, cluster boost, re-sort,
\* diversity, top-K
match_basic(clinicians, u) ==
    LET baseline == match_anonymous(clinicians, u)
        boosted == boost_cluster_matches(baseline,
                                         get_cluster_favorites(assign_cluster(u)))
    IN  Prefix(apply_diversity(clinicians, sort_by_score(boosted)), result_limit(u))

\* match_complete as one computation: hybrid scoring, re-sort, diversity, top-K
match_complete(clinicians, u) ==
    LET ids == filter_by_requirements(clinicians, AllClinicians, u)
        cf == predict_scores(user_item_matrix, similar_users, SeqRange(ids))
        hybrid == [i \in 1..Len(ids) |->
                      [clinician_id |-> ids[i],
                       score |-> hybrid_score(
                                     calculate_content_score(ids[i], clinicians[ids[i]],
                                                             u, "ml"),
                                     cf[ids[i]])]]
    IN  Prefix(apply_diversity(clinicians, sort_by_score(hybrid)), result_limit(u))

\* match(): delegates to the strategy of the user type
match(clinicians, u) ==
    IF u.registration_type = "complete" THEN match_complete(clinicians, u)
    ELSE IF u.registration_type = "basic" THEN match_basic(clinicians, u)
    ELSE match_anonymous(clinicians, u)

OtherUsers == {"u1", "u2"}

\* Requests of the three tiers
Requests ==
    [registration_type : {"anonymous", "basic", "complete"},
     user_id : {"u0"},
     state : {"CA"},
     appointment_type : {"therapy"},
     insurance_provider : {NoInsurance, "Aetna"},
     clinical_needs : {{}, {"anxiety", "trauma"}},
     urgency_level : {"immediate", "flexible"},
     gender_preference : {"female"},
     language : {"English"},
     therapy_experience : {"first_time"},
     limit : {0, 9}]

NoFavorites == [k \in CLUSTERS |-> {}]
SomeFavorites == [k \in CLUSTERS |-> {(k % NumClinicians) + 1, ((k + 3) % NumClinicians) + 1}]
AllFavorites == [k \in CLUSTERS |-> ClinicianIds]

EmptyMatrix == [u \in {} |-> EmptyDict]

HistoryMatrix ==
    [u \in OtherUsers |->
        IF u = "u1"
        THEN [c \in {1, 2} |-> IF c = 1 THEN Frac(10, 10) ELSE Frac(-5, 10)]
        ELSE [c \in {2, 3} |-> IF c = 2 THEN Frac(-5, 10) ELSE Frac(2, 10)]]

\* The engine before a request, with the given inputs
EngineState(u, p, position, ids, list, favorites, matrix, similar) ==
    /\ request = u
    /\ pool = p
    /\ pc = position
    /\ candidates = ids
    /\ matches = list
    /\ base_matches = <<>>
    /\ cluster_id = -1
    /\ cluster_favorites = favorites
    /\ cf_predictions = EmptyDict
    /\ content_scores = EmptyDict
    /\ user_item_matrix = matrix
    /\ similar_users = similar
    /\ pre_diversity = <<>>

BuildIdle ==
    /\ all_interactions = <<>>
    /\ fold_pos = 0

Undefined == "undefined"

\* user = null
NullUser == [exists |-> FALSE, user_id |-> Undefined, registration_type |-> Undefined]

NoRequest == [user |-> NullUser, authenticated |-> FALSE, endpoint |-> "none"]

SessionIdle ==
    /\ user = NullUser
    /\ isAuthenticated = FALSE
    /\ loading = TRUE
    /\ mounted = FALSE
    /\ localStorage = [lunajoy_user |-> NullUser, last_search |-> EmptyDict,
                       saved_clinicians |-> {}]
    /\ pending = {}
    /\ last_request = NoRequest

\* No insurance evaluation logged
InsuranceIdle == insurance_log = <<>>

\* No load-balance score computed
NoLoadResult == [load_balance |-> -1, adjusted |-> -1]

LoadIdle == load_result = NoLoadResult /\ specialties_score = -1

\* searchResults = null
NoResults == [exists |-> FALSE, matches |-> <<>>, request |-> EmptyDict]

\* error = null
NoError == "null"

\* App as first rendered
AppIdle ==
    /\ currentView = "home"
    /\ searchResults = NoResults
    /\ searching = FALSE
    /\ error = NoError
    /\ in_flight = {}
    /\ searchParams = EmptyDict

\* The ids typed into the login form: the README's test users and a stranger
LoginIds == {"test_user_basic", "user_01307_c530ad", "unknown_user"}

\* No login call has resolved
NoLoginResult == [user_id |-> Undefined, success |-> FALSE, error |-> Undefined,
                  requests |-> 0]

LoginIdle ==
    /\ login_result = NoLoginResult
    /\ user_fetches = [id \in LoginIds |-> 0]

\* No refresh is under way
NothingStaged == [kind |-> "none", matrix |-> EmptyMatrix, favorites |-> NoFavorites]

RefreshIdle == staged = NothingStaged

\* No modal open, no tracking request sent
InteractIdle ==
    /\ showLoginModal = FALSE
    /\ selectedClinician = 0
    /\ showDetailModal = FALSE
    /\ tracked = <<>>

\* A request with every field at its default
IdleRequest ==
    [registration_type |-> "anonymous", user_id |-> "u0", state |-> "CA",
     appointment_type |-> "therapy", insurance_provider |-> NoInsurance,
     clinical_needs |-> {}, urgency_level |-> "flexible",
     gender_preference |-> "female", language |-> "English",
     therapy_experience |-> "first_time", limit |-> 0]

\* useState of SearchForm: the fields validation and cleaning look at, with
\* the request's remaining fields at their defaults
initial_formData == [IdleRequest EXCEPT !.state = "", !.insurance_provider = ""]

\* SearchForm as mounted with the given initialValues; timers is the queue
\* of the 300 ms timers pending, onSearch_calls counts the calls of onSearch
SearchFormMounted(initialValues, calls) ==
    [currentStep |-> 0,
     formData |-> initialValues @@ initial_formData,
     errors |-> {},
     isAnimating |-> FALSE,
     timers |-> <<>>,
     onSearch_calls |-> calls]

\* useState of LoginModal; pc is the position of handleSubmit: idle, awaiting
\* the login call, or closing (the 500 ms timer of a successful login is set)
LoginModalMounted ==
    [userId |-> "", error |-> "", loading |-> FALSE, pc |-> "idle"]

\* The clinicians of a result list
DetailIds == {1, 2, 3}

\* useState of ClinicianList and its clinicians prop; requests counts the
\* detail requests sent per clinician, logged holds the clinicians whose
\* request threw (console.error), effect_due says that a render changed a
\* dependency of the detail effect, which has not run yet
ClinicianListMounted ==
    [clinicians |-> {}, clinicianDetails |-> {}, loadingDetails |-> {},
     requests |-> [c \in DetailIds |-> 0], logged |-> {}, effect_due |-> FALSE]

ComponentIdle ==
    /\ searchForm = SearchFormMounted(EmptyDict, 0)
    /\ loginModal = LoginModalMounted
    /\ clinicianList = ClinicianListMounted

OtherIdle ==
    /\ InsuranceIdle /\ LoadIdle /\ AppIdle /\ LoginIdle /\ RefreshIdle /\ InteractIdle
    /\ ComponentIdle

Init ==
    /\ \E u \in Requests, p \in [ClinicianIds -> Profiles] :
         \E favorites \in (IF u.registration_type = "basic"
                           THEN {NoFavorites, SomeFavorites, AllFavorites}
                           ELSE {NoFavorites}),
            similar \in (IF u.registration_type = "complete"
                         THEN {{}, {"u1"}, {"u1", "u2"}} ELSE {{}}) :
            EngineState(u, p, "start", <<>>, <<>>, favorites,
                        IF u.registration_type = "complete"
                        THEN HistoryMatrix ELSE EmptyMatrix,
                        similar)
    /\ BuildIdle
    /\ SessionIdle
    /\ OtherIdle

\* match(): anonymous strategy, step 1 (hard filters)
MatchAnonymousFilter ==
    /\ pc = "start"
    /\ request.registration_type = "anonymous"
    /\ candidates' = filter_by_requirements(pool, AllClinicians, request)
    /\ pc' = "anonymous_score"
    /\ UNCHANGED <<request, pool, matches, base_matches, cluster_id, cluster_favorites,
                   cf_predictions, content_scores, user_item_matrix, similar_users,
                   pre_diversity,
                   buildVars, sessionVars, otherVars>>

\* anonymous strategy, step 2 (content score of every candidate)
MatchAnonymousScore ==
    /\ pc = "anonymous_score"
    /\ matches' = score_candidates(pool, candidates, request, "basic")
    /\ pc' = "anonymous_top_k"
    /\ UNCHANGED <<request, pool, candidates, base_matches, cluster_id, cluster_favorites,
                   cf_predictions, content_scores, user_item_matrix, similar_users,
                   pre_diversity,
                   buildVars, sessionVars, otherVars>>

\* anonymous strategy, step 3 (top 5)
MatchAnonymousTopK ==
    /\ pc = "anonymous_top_k"
    /\ matches' = top_k(matches, TOP_K_ANONYMOUS)
    /\ pc' = "done"
    /\ UNCHANGED <<request, pool, candidates, base_matches, cluster_id, cluster_favorites,
                   cf_predictions, content_scores, user_item_matrix, similar_users,
                   pre_diversity,
                   buildVars, sessionVars, otherVars>>

\* match(): basic strategy, step 1 (anonymous matching as baseline)
MatchBasicBaseline ==
    /\ pc = "start"
    /\ request.registration_type = "basic"
    /\ base_matches' = match_anonymous(pool, request)
    /\ matches' = base_matches'
    /\ candidates' = filter_by_requirements(pool, AllClinicians, request)
    /\ pc' = "basic_boost"
    /\ UNCHANGED <<request, pool, cluster_id, cluster_favorites, cf_predictions,
                   content_scores, user_item_matrix, similar_users, pre_diversity,
                   buildVars, sessionVars, otherVars>>

\* basic strategy, steps 2-4 (cluster, cluster favourites, boost)
MatchBasicBoost ==
    /\ pc = "basic_boost"
    /\ cluster_id' = assign_cluster(request)
    /\ matches' = boost_cluster_matches(base_matches, get_cluster_favorites(cluster_id'))
    /\ pc' = "sort"
    /\ UNCHANGED <<request, pool, candidates, base_matches, cluster_favorites,
                   cf_predictions, content_scores, user_item_matrix, similar_users,
                   pre_diversity,
                   buildVars, sessionVars, otherVars>>

\* match(): complete strategy, hard filters
MatchCompleteFilter ==
    /\ pc = "start"
    /\ request.registration_type = "complete"
    /\ candidates' = filter_by_requirements(pool, AllClinicians, request)
    /\ pc' = "complete_score"
    /\ UNCHANGED <<request, pool, matches, base_matches, cluster_id, cluster_favorites,
                   cf_predictions, content_scores, user_item_matrix, similar_users,
                   pre_diversity,
                   buildVars, sessionVars, otherVars>>

\* complete strategy, steps 1-3 (CF predictions, content scores, hybrid scoring)
MatchCompleteScore ==
    /\ pc = "complete_score"
    /\ cf_predictions' = predict_scores(user_item_matrix, similar_users,
                                        SeqRange(candidates))
    /\ content_scores' = [c \in SeqRange(candidates) |->
                             calculate_content_score(c, pool[c], request, "ml")]
    /\ matches' = [i \in 1..Len(candidates) |->
                      [clinician_id |-> candidates[i],
                       score |-> hybrid_score(content_scores'[candidates[i]],
                                              cf_predictions'[candidates[i]])]]
    /\ pc' = "sort"
    /\ UNCHANGED <<request, pool, candidates, base_matches, cluster_id, cluster_favorites,
                   user_item_matrix, similar_users, pre_diversity,
                   buildVars, sessionVars, otherVars>>

\* registered strategies: re-sort by score
SortMatches ==
    /\ pc = "sort"
    /\ matches' = sort_by_score(matches)
    /\ pc' = "diversity"
    /\ UNCHANGED <<request, pool, candidates, base_matches, cluster_id, cluster_favorites,
                   cf_predictions, content_scores, user_item_matrix, similar_users,
                   pre_diversity,
                   buildVars, sessionVars, otherVars>>

\* registered strategies: diversity re-rank
ApplyDiversity ==
    /\ pc = "diversity"
    /\ pre_diversity' = matches
    /\ matches' = apply_diversity(pool, matches)
    /\ pc' = "top_k"
    /\ UNCHANGED <<request, pool, candidates, base_matches, cluster_id, cluster_favorites,
                   cf_predictions, content_scores, user_item_matrix, similar_users,
                   buildVars, sessionVars, otherVars>>

\* registered strategies: top-K
SelectTopK ==
    /\ pc = "top_k"
    /\ matches' = Prefix(matches, result_limit(request))
    /\ pc' = "done"
    /\ UNCHANGED <<request, pool, candidates, base_matches, cluster_id, cluster_favorites,
                   cf_predictions, content_scores, user_item_matrix, similar_users,
                   pre_diversity,
                   buildVars, sessionVars, otherVars>>

Next ==
    \/ MatchAnonymousFilter
    \/ MatchAnonymousScore
    \/ MatchAnonymousTopK
    \/ MatchBasicBaseline
    \/ MatchBasicBoost
    \/ MatchCompleteFilter
    \/ MatchCompleteScore
    \/ SortMatches
    \/ ApplyDiversity
    \/ SelectTopK

Spec == Init /\ [][Next]_vars

\* ------------------------------------------------------------------------
\* The filter stage on its own
\* ------------------------------------------------------------------------

NumFilterInputs == 3

\* Every combination of the attributes the hard filters read
FilterProfiles ==
    {[BusyProfile EXCEPT !.license_states = ls, !.appointment_types = ts,
                         !.accepting_new_patients = acc] :
        ls \in SUBSET States \ {{}}, ts \in SUBSET AppointmentTypes \ {{}},
        acc \in BOOLEAN}

InitFilter ==
    /\ \E p \in [1..NumFilterInputs -> FilterProfiles],
          st \in States, ty \in AppointmentTypes :
         EngineState([IdleRequest EXCEPT !.state = st, !.appointment_type = ty],
                     p, "filter", <<>>, <<>>, NoFavorites, EmptyMatrix, {})
    /\ BuildIdle
    /\ SessionIdle
    /\ OtherIdle

\* filter(candidates, prefs) over every clinician of the pool
ApplyFilters ==
    /\ pc = "filter"
    /\ candidates' = apply_filters_optimized(pool, SortedSeq(DOMAIN pool), request)
    /\ pc' = "filtered"
    /\ UNCHANGED <<request, pool, matches, base_matches, cluster_id, cluster_favorites,
                   cf_predictions, content_scores, user_item_matrix, similar_users,
                   pre_diversity, buildVars, sessionVars, otherVars>>

NextFilter == ApplyFilters

SpecFilter == InitFilter /\ [][NextFilter]_vars

\* ------------------------------------------------------------------------
\* Diversity re-ranking on its own
\* ------------------------------------------------------------------------

NumRanked == 5

DiversityProfiles ==
    {[BusyProfile EXCEPT !.gender = g, !.primary_specialty = sp] :
        g \in {"female", "male"}, sp \in Needs}

DiversityScores == {Frac(8, 10), Frac(6, 10)}

\* Every match list the ranking can hand to apply_diversity
InitDiversity ==
    /\ \E p \in [1..NumRanked -> DiversityProfiles],
          sc \in [1..NumRanked -> DiversityScores] :
         EngineState([IdleRequest EXCEPT !.registration_type = "basic"],
                     p, "diversity", SortedSeq(1..NumRanked),
                     sort_by_score([i \in 1..NumRanked |->
                                       [clinician_id |-> i, score |-> sc[i]]]),
                     NoFavorites, EmptyMatrix, {})
    /\ BuildIdle
    /\ SessionIdle
    /\ OtherIdle

NextDiversity ==
    \/ ApplyDiversity
    \/ SelectTopK

SpecDiversity == InitDiversity /\ [][NextDiversity]_vars

\* ------------------------------------------------------------------------
\* Cluster assignment on its own
\* ------------------------------------------------------------------------

ClusterNeeds == {"trauma", "anxiety", "couples", "depression"}

ClusterUsers ==
    {[IdleRequest EXCEPT !.registration_type = "basic", !.appointment_type = ty,
                         !.clinical_needs = needs, !.urgency_level = urg,
                         !.insurance_provider = ins, !.therapy_experience = exp] :
        ty \in AppointmentTypes, needs \in SUBSET ClusterNeeds,
        urg \in {"immediate", "flexible"}, ins \in {NoInsurance, "Aetna"},
        exp \in {"first_time", "some_experience", "experienced"}}

InitCluster ==
    /\ \E u \in ClusterUsers :
         EngineState(u, [c \in ClinicianIds |-> BusyProfile], "cluster", <<>>, <<>>,
                     NoFavorites, EmptyMatrix, {})
    /\ BuildIdle
    /\ SessionIdle
    /\ OtherIdle

\* clustering_service.get_cluster(user)
AssignCluster ==
    /\ pc = "cluster"
    /\ cluster_id' = assign_cluster(request)
    /\ pc' = "clustered"
    /\ UNCHANGED <<request, pool, candidates, matches, base_matches, cluster_favorites,
                   cf_predictions, content_scores, user_item_matrix, similar_users,
                   pre_diversity, buildVars, sessionVars, otherVars>>

NextCluster == AssignCluster

SpecCluster == InitCluster /\ [][NextCluster]_vars

\* ------------------------------------------------------------------------
\* Building the user-item matrix
\* ------------------------------------------------------------------------

MaxInteractions == 2

MatrixClinicians == {1, 2}

Interactions ==
    [user_id : OtherUsers, clinician_id : MatrixClinicians, action : Actions]

RECURSIVE SeqsUpTo(_, _)
SeqsUpTo(S, n) ==
    IF n = 0 THEN {<<>>}
    ELSE LET shorter == SeqsUpTo(S, n - 1)
         IN  shorter \cup {Append(q, x) : q \in {r \in shorter : Len(r) = n - 1}, x \in S}

IdlePool == [c \in ClinicianIds |-> BusyProfile]

InitBuild ==
    /\ EngineState(IdleRequest, IdlePool, "build", <<>>, <<>>, NoFavorites,
                   EmptyMatrix, {})
    /\ all_interactions \in SeqsUpTo(Interactions, MaxInteractions)
    /\ fold_pos = 1
    /\ SessionIdle
    /\ OtherIdle

\* One iteration of the loop of build_user_item_matrix.  matrix is a
\* defaultdict(dict): reading matrix[user_id] creates the user's empty row;
\* reading row[clinician_id] of a clinician the row does not hold raises KeyError.
FoldInteraction ==
    /\ pc = "build"
    /\ fold_pos <= Len(all_interactions)
    /\ LET interaction == all_interactions[fold_pos]
           user_id == interaction.user_id
           clinician_id == interaction.clinician_id
           score == interaction_to_score(interaction)
           row == IF user_id \in DOMAIN user_item_matrix
                  THEN user_item_matrix[user_id] ELSE EmptyDict
       IN  IF clinician_id \in DOMAIN row
           THEN /\ user_item_matrix' =
                     DictPut(user_item_matrix, user_id,
                             DictPut(row, clinician_id, Max(row[clinician_id], score)))
                /\ fold_pos' = fold_pos + 1
                /\ pc' = "build"
           ELSE /\ user_item_matrix' = DictPut(user_item_matrix, user_id, row)
                /\ fold_pos' = fold_pos
                /\ pc' = "KeyError"
    /\ UNCHANGED <<request, pool, candidates, matches, base_matches, cluster_id,
                   cluster_favorites, cf_predictions, content_scores, similar_users,
                   pre_diversity, all_interactions, sessionVars, otherVars>>

\* return matrix
ReturnMatrix ==
    /\ pc = "build"
    /\ fold_pos > Len(all_interactions)
    /\ pc' = "built"
    /\ UNCHANGED <<request, pool, candidates, matches, base_matches, cluster_id,
                   cluster_favorites, cf_predictions, content_scores,
                   user_item_matrix, similar_users, pre_diversity, buildVars,
                   sessionVars, otherVars>>

NextBuild ==
    \/ FoldInteraction
    \/ ReturnMatrix

SpecBuild == InitBuild /\ [][NextBuild]_vars

\* ------------------------------------------------------------------------
\* Prediction on its own
\* ------------------------------------------------------------------------

\* The scores of booked, viewed and rejected, or no entry
MatrixEntries == {Frac(10, 10), Frac(2, 10), Frac(-5, 10)}

\* Every sparse matrix of the other users over the matrix clinicians
Matrices ==
    {[u \in OtherUsers |-> [c \in rated[u] |-> val[u][c]]] :
        rated \in [OtherUsers -> SUBSET MatrixClinicians],
        val \in [OtherUsers -> [MatrixClinicians -> MatrixEntries]]}

InitPredict ==
    /\ \E m \in Matrices, similar \in SUBSET OtherUsers,
          ids \in {<<1>>, <<1, 2>>, <<2, 3>>} :
         EngineState([IdleRequest EXCEPT !.registration_type = "complete"],
                     IdlePool, "predict", ids, <<>>, NoFavorites, m, similar)
    /\ BuildIdle
    /\ SessionIdle
    /\ OtherIdle

\* collaborative_engine.predict(user)
Predict ==
    /\ pc = "predict"
    /\ cf_predictions' = predict_scores(user_item_matrix, similar_users,
                                        SeqRange(candidates))
    /\ pc' = "predicted"
    /\ UNCHANGED <<request, pool, candidates, matches, base_matches, cluster_id,
                   cluster_favorites, content_scores, user_item_matrix, similar_users,
                   pre_diversity, buildVars, sessionVars, otherVars>>

NextPredict == Predict

SpecPredict == InitPredict /\ [][NextPredict]_vars

\* ------------------------------------------------------------------------
\* The frontend session (UserProvider) and the endpoint choice of handleSearch
\* ------------------------------------------------------------------------

\* The users the backend knows (the README's test users)
KnownUsers ==
    {[exists |-> TRUE, user_id |-> "test_user_basic", registration_type |-> "basic"],
     [exists |-> TRUE, user_id |-> "user_01307_c530ad", registration_type |-> "complete"]}

UserOf(id) == CHOOSE u \in KnownUsers : u.user_id = id

\* Arguments of updateUser: the fields to overwrite
UserUpdates ==
    {[user_id |-> Undefined, registration_type |-> Undefined],
     [user_id |-> Undefined, registration_type |-> "basic"],
     [user_id |-> Undefined, registration_type |-> "complete"]}

\* { ...user, ...updates }: an object also when user is null
Spread(u, updates) ==
    [exists |-> TRUE,
     user_id |-> IF updates.user_id # Undefined THEN updates.user_id ELSE u.user_id,
     registration_type |-> IF updates.registration_type # Undefined
                           THEN updates.registration_type ELSE u.registration_type]

\* What the search form submits
SearchForms ==
    {[IdleRequest EXCEPT !.appointment_type = "therapy", !.clinical_needs = {"anxiety"}]}

\* cleanedPreferences with the limit, as the chosen endpoint receives them
SearchRequest(formData, endpoint) ==
    [formData EXCEPT
        !.clinical_needs = IF formData.appointment_type = "medication" THEN {}
                           ELSE formData.clinical_needs,
        !.limit = TOP_K_DEFAULT,
        !.registration_type = endpoint]

\* A clinician licensed in the user's state who takes no new patients
ClosedProfile == [BusyProfile EXCEPT !.accepting_new_patients = FALSE]

\* Clinician data of the backend: nobody licensed in the user's state; one
\* licensed clinician who takes no new patients; everybody eligible
SearchPools ==
    {[c \in ClinicianIds |-> AwayProfile],
     [c \in ClinicianIds |-> IF c = 1 THEN ClosedProfile ELSE AwayProfile],
     [c \in ClinicianIds |-> BusyProfile]}

MaxInFlight == 2

\* What ClinicianList renders for its props
ClinicianList(clinicians, is_loading, err) ==
    IF is_loading THEN "spinner"
    ELSE IF err # NoError THEN "error"
    ELSE IF clinicians = <<>> THEN "empty"
    ELSE "list"

\* What the main area of App renders
MainView ==
    IF currentView = "search-results" /\ searchResults.exists
    THEN ClinicianList(searchResults.matches, searching, error)
    ELSE IF currentView = "search-results" THEN "blank"
    ELSE currentView

\* The matching endpoint handleSearch calls
choose_endpoint(authenticated, u) ==
    IF authenticated /\ u.exists
    THEN IF u.registration_type = "complete" THEN "complete"
         ELSE IF u.registration_type = "basic" THEN "basic"
         ELSE "anonymous"
    ELSE "anonymous"

InitSession ==
    /\ \E clinicians \in SearchPools :
         EngineState(IdleRequest, clinicians, "idle", <<>>, <<>>, NoFavorites,
                     EmptyMatrix, {})
    /\ BuildIdle
    /\ SessionIdle
    /\ OtherIdle

\* The effect run on mount: restore the saved user
Mount ==
    /\ ~mounted
    /\ mounted' = TRUE
    /\ IF localStorage.lunajoy_user.exists
       THEN /\ user' = localStorage.lunajoy_user
            /\ isAuthenticated' = TRUE
       ELSE UNCHANGED <<user, isAuthenticated>>
    /\ loading' = FALSE
    /\ searchParams' = localStorage.last_search
    /\ searchForm' = SearchFormMounted(localStorage.last_search,
                                       searchForm.onSearch_calls)
    /\ UNCHANGED <<localStorage, pending, last_request, currentView, searchResults,
                   searching, error, in_flight, loginModal, clinicianList,
                   engineVars, buildVars, backendVars, loginVars, refreshVars,
                   interactVars>>

\* The page is loaded again: component state is lost, localStorage is kept
Reload ==
    /\ mounted
    /\ user' = NullUser
    /\ isAuthenticated' = FALSE
    /\ loading' = TRUE
    /\ mounted' = FALSE
    /\ pending' = {}
    /\ last_request' = NoRequest
    /\ currentView' = "home"
    /\ searchResults' = NoResults
    /\ searching' = FALSE
    /\ error' = NoError
    /\ in_flight' = {}
    /\ login_result' = NoLoginResult
    /\ user_fetches' = [id \in LoginIds |-> 0]
    /\ showLoginModal' = FALSE
    /\ selectedClinician' = 0
    /\ showDetailModal' = FALSE
    /\ searchParams' = EmptyDict
    /\ searchForm' = SearchFormMounted(EmptyDict, searchForm.onSearch_calls)
    /\ loginModal' = LoginModalMounted
    /\ clinicianList' = [ClinicianListMounted EXCEPT
                            !.requests = clinicianList.requests,
                            !.logged = clinicianList.logged]
    /\ UNCHANGED <<localStorage, tracked, engineVars, buildVars, backendVars,
                   refreshVars>>

\* login(userId) up to the await of userAPI.getUser
login_begin(id) ==
    /\ mounted
    /\ id \notin pending
    /\ loading' = TRUE
    /\ user' = NullUser
    /\ isAuthenticated' = FALSE
    /\ pending' = pending \cup {id}
    /\ user_fetches' = [user_fetches EXCEPT ![id] = 1]
    /\ UNCHANGED <<mounted, localStorage, last_request, login_result, engineVars,
                   buildVars, backendVars, appVars, refreshVars, interactVars>>

\* login(userId) called from outside the modal
LoginStart(id) ==
    /\ login_begin(id)
    /\ UNCHANGED componentVars

\* login(userId) after userAPI.getUser returned the user
LoginSucceed(id) ==
    /\ id \in pending
    /\ \E u \in KnownUsers : u.user_id = id
    /\ user' = UserOf(id)
    /\ isAuthenticated' = TRUE
    /\ localStorage' = [localStorage EXCEPT !.lunajoy_user = UserOf(id)]
    /\ loading' = FALSE
    /\ pending' = pending \ {id}
    /\ login_result' = [user_id |-> id, success |-> TRUE, error |-> Undefined,
                        requests |-> user_fetches[id]]
    /\ user_fetches' = [user_fetches EXCEPT ![id] = 0]
    /\ UNCHANGED <<mounted, last_request, engineVars, buildVars,
                   backendVars, appVars, refreshVars, interactVars,
                   componentVars>>

\* The message of the error userAPI.getUser throws: the detail of the 404
\* answer for a user the backend lacks, the fetch failure otherwise
error_message(id) ==
    IF \E u \in KnownUsers : u.user_id = id THEN "Failed to fetch" ELSE "User not found"

\* login(userId) after userAPI.getUser threw (unknown user, network error)
LoginFail_keep_saved_user(id) ==
    /\ id \in pending
    /\ user' = NullUser
    /\ isAuthenticated' = FALSE
    /\ loading' = FALSE
    /\ pending' = pending \ {id}
    /\ login_result' = [user_id |-> id, success |-> FALSE, error |-> error_message(id),
                        requests |-> user_fetches[id]]
    /\ user_fetches' = [user_fetches EXCEPT ![id] = 0]
    /\ UNCHANGED <<mounted, localStorage, last_request, engineVars, buildVars,
                   backendVars, appVars, refreshVars, interactVars,
                   componentVars>>

LoginFail(id) ==
    /\ id \in pending
    /\ user' = NullUser
    /\ isAuthenticated' = FALSE
    /\ localStorage' = [localStorage EXCEPT !.lunajoy_user = NullUser]
    /\ loading' = FALSE
    /\ pending' = pending \ {id}
    /\ login_result' = [user_id |-> id, success |-> FALSE, error |-> error_message(id),
                        requests |-> user_fetches[id]]
    /\ user_fetches' = [user_fetches EXCEPT ![id] = 0]
    /\ UNCHANGED <<mounted, last_request, engineVars, buildVars,
                   backendVars, appVars, refreshVars, interactVars,
                   componentVars>>

Logout ==
    /\ mounted
    /\ user' = NullUser
    /\ isAuthenticated' = FALSE
    /\ localStorage' = [localStorage EXCEPT !.lunajoy_user = NullUser,
                                            !.last_search = EmptyDict]
    /\ UNCHANGED <<loading, mounted, pending, last_request, engineVars, buildVars, otherVars>>

UpdateUser(updates) ==
    /\ mounted
    /\ user' = Spread(user, updates)
    /\ localStorage' = [localStorage EXCEPT !.lunajoy_user = Spread(user, updates)]
    /\ UNCHANGED <<isAuthenticated, loading, mounted, pending, last_request,
                   engineVars, buildVars, otherVars>>

\* handleSearch up to the await of the matching API
HandleSearch(formData) ==
    /\ mounted
    /\ currentView = "home"
    /\ Cardinality(in_flight) < MaxInFlight
    /\ searchParams' = formData
    /\ searching' = TRUE
    /\ error' = NoError
    /\ currentView' = "search-results"
    /\ last_request' = [user |-> user, authenticated |-> isAuthenticated,
                        endpoint |-> choose_endpoint(isAuthenticated, user)]
    /\ LET slot == CHOOSE n \in 1..MaxInFlight : \A s \in in_flight : s.slot # n
       IN  in_flight' = in_flight \cup
               {[slot |-> slot,
                 formData |-> formData,
                 request |-> SearchRequest(formData,
                                           choose_endpoint(isAuthenticated, user))]}
    /\ UNCHANGED <<user, isAuthenticated, loading, mounted, localStorage, pending,
                   searchResults, engineVars, buildVars,
                   backendVars, loginVars, refreshVars, interactVars,
                   componentVars>>

\* handleSearch after the matching API answered: the response is stored
SearchSucceed(s) ==
    /\ s \in in_flight
    /\ searchResults' = [exists |-> TRUE,
                         matches |-> match(pool, s.request),
                         request |-> s.request]
    /\ localStorage' = [localStorage EXCEPT !.last_search = s.formData]
    /\ searching' = FALSE
    /\ in_flight' = in_flight \ {s}
    /\ UNCHANGED <<user, isAuthenticated, loading, mounted, pending, last_request,
                   currentView, error, searchParams, engineVars, buildVars,
                   backendVars, loginVars, refreshVars, interactVars,
                   componentVars>>

\* handleSearch after the matching API threw
SearchFail(s) ==
    /\ s \in in_flight
    /\ error' = "Unable to find matches. Please try again."
    /\ searching' = FALSE
    /\ in_flight' = in_flight \ {s}
    /\ UNCHANGED <<user, isAuthenticated, loading, mounted, localStorage, pending,
                   last_request, currentView, searchResults, searchParams,
                   engineVars, buildVars,
                   backendVars, loginVars, refreshVars, interactVars,
                   componentVars>>

\* handleNewSearch, behind the "New Search" button of the results view
HandleNewSearch ==
    /\ mounted
    /\ currentView = "search-results"
    /\ searchResults.exists
    /\ searchResults' = NoResults
    /\ error' = NoError
    /\ currentView' = "home"
    /\ UNCHANGED <<sessionVars, searching, in_flight, searchParams, engineVars, buildVars,
                   backendVars, loginVars, refreshVars, interactVars,
                   componentVars>>

NextSession ==
    \/ Mount
    \/ Reload
    \/ \E id \in LoginIds : LoginStart(id)
    \/ \E id \in LoginIds : LoginSucceed(id)
    \/ \E id \in LoginIds : LoginFail(id)
    \/ Logout
    \/ \E updates \in UserUpdates : UpdateUser(updates)
    \/ \E formData \in SearchForms : HandleSearch(formData)

SpecSession == InitSession /\ [][NextSession]_vars

\* Searching: sign-in and sign-out, and handleSearch from its call to the
\* arrival of the answer, several calls overlapping
NextSearch ==
    \/ Mount
    \/ \E id \in LoginIds : LoginStart(id)
    \/ \E id \in LoginIds : LoginSucceed(id)
    \/ \E id \in LoginIds : LoginFail(id)
    \/ Logout
    \/ \E formData \in SearchForms : HandleSearch(formData)
    \/ \E s \in in_flight : SearchSucceed(s)
    \/ \E s \in in_flight : SearchFail(s)
    \/ HandleNewSearch

SpecSearch == InitSession /\ [][NextSearch]_vars

\* Two searches that differ, for calls that overlap
OverlapForms == SearchForms \cup {[IdleRequest EXCEPT !.appointment_type = "medication"]}

\* handleHashChange: the hash of the address changed (header link, back button)
HandleHashChange(hash) ==
    /\ mounted
    /\ IF hash = "how-it-works"
       THEN /\ currentView' = "how-it-works"
            /\ UNCHANGED searchResults
       ELSE /\ hash \in {"home", ""}
            /\ currentView' = "home"
            /\ searchResults' = NoResults
    /\ UNCHANGED <<sessionVars, searching, error, in_flight, searchParams, engineVars,
                   buildVars, backendVars, loginVars, refreshVars, interactVars,
                   componentVars>>

\* navigateToHome, behind the "Back to Home" button of the how-it-works view
NavigateToHome ==
    /\ mounted
    /\ currentView = "how-it-works"
    /\ currentView' = "home"
    /\ searchResults' = NoResults
    /\ UNCHANGED <<sessionVars, searching, error, in_flight, searchParams, engineVars,
                   buildVars, backendVars, loginVars, refreshVars, interactVars,
                   componentVars>>

\* The matching API answers or throws
SearchCompletes == \E s \in in_flight : SearchFail(s) \/ SearchSucceed(s)

\* Searching while moving between the views
NextNavigate ==
    \/ Mount
    \/ \E formData \in OverlapForms : HandleSearch(formData)
    \/ \E s \in in_flight : SearchSucceed(s)
    \/ \E s \in in_flight : SearchFail(s)
    \/ HandleNewSearch
    \/ \E hash \in {"how-it-works", "home"} : HandleHashChange(hash)
    \/ NavigateToHome

\* The mount effect runs and every search request completes
SpecNavigate ==
    /\ InitSession
    /\ [][NextNavigate]_vars
    /\ WF_vars(Mount)
    /\ WF_vars(SearchCompletes)

\* ------------------------------------------------------------------------
\* Acting on a clinician card: view, contact, book, save
\* ------------------------------------------------------------------------

\* The clinician whose card is on the page
CardIds == {1}

\* The ids typed into the login form here: a known user and a stranger
InteractLogins == {"test_user_basic", "unknown_user"}

MaxTracked == 2

InitInteract ==
    /\ EngineState(IdleRequest, IdlePool, "idle", <<>>, <<>>, NoFavorites,
                   EmptyMatrix, {})
    /\ BuildIdle
    /\ SessionIdle
    /\ OtherIdle

\* The body of the POST an interactionAPI call sends
tracking_request(kind, user_id, clinician_id) ==
    [kind |-> kind, user_id |-> user_id, clinician_id |-> clinician_id]

\* handleViewClinician
HandleViewClinician(clinician) ==
    /\ mounted
    /\ selectedClinician' = clinician
    /\ showDetailModal' = TRUE
    /\ IF isAuthenticated /\ user.exists
       THEN /\ Len(tracked) < MaxTracked
            /\ tracked' = Append(tracked,
                                 tracking_request("view", user.user_id, clinician))
       ELSE UNCHANGED tracked
    /\ UNCHANGED <<showLoginModal, engineVars, buildVars, sessionVars, backendVars,
                   appVars, loginVars, refreshVars,
                   componentVars>>

\* handleContactClinician, from a card or from the detail modal
HandleContactClinician(clinician) ==
    /\ mounted
    /\ IF ~isAuthenticated
       THEN /\ showLoginModal' = TRUE
            /\ UNCHANGED tracked
       ELSE /\ Len(tracked) < MaxTracked
            /\ tracked' = Append(tracked,
                                 tracking_request("contact", user.user_id, clinician))
            /\ UNCHANGED showLoginModal
    /\ UNCHANGED <<selectedClinician, showDetailModal, engineVars, buildVars,
                   sessionVars, backendVars, appVars, loginVars, refreshVars,
                   componentVars>>

\* handleScheduleClinician, from the detail modal
HandleScheduleClinician(clinician) ==
    /\ mounted
    /\ showDetailModal
    /\ clinician = selectedClinician
    /\ IF ~isAuthenticated
       THEN /\ showLoginModal' = TRUE
            /\ UNCHANGED tracked
       ELSE /\ Len(tracked) < MaxTracked
            /\ tracked' = Append(tracked,
                                 tracking_request("book", user.user_id, clinician))
            /\ UNCHANGED showLoginModal
    /\ UNCHANGED <<selectedClinician, showDetailModal, engineVars, buildVars,
                   sessionVars, backendVars, appVars, loginVars, refreshVars,
                   componentVars>>

\* Mutant: the guard looks at the user object instead of isAuthenticated
HandleSaveClinician_if_user(clinician) ==
    /\ mounted
    /\ IF ~user.exists
       THEN /\ showLoginModal' = TRUE
            /\ UNCHANGED localStorage
       ELSE /\ localStorage' =
                   [localStorage EXCEPT !.saved_clinicians =
                       IF clinician \in @ THEN @ \ {clinician} ELSE @ \cup {clinician}]
            /\ UNCHANGED showLoginModal
    /\ UNCHANGED <<user, isAuthenticated, loading, mounted, pending, last_request,
                   selectedClinician, showDetailModal, tracked, engineVars, buildVars,
                   backendVars, appVars, loginVars, refreshVars,
                   componentVars>>

\* handleSaveClinician: the clinician is added to 'saved_clinicians', or
\* removed when already there
HandleSaveClinician(clinician) ==
    /\ mounted
    /\ IF ~isAuthenticated
       THEN /\ showLoginModal' = TRUE
            /\ UNCHANGED localStorage
       ELSE /\ localStorage' =
                   [localStorage EXCEPT !.saved_clinicians =
                       IF clinician \in @ THEN @ \ {clinician} ELSE @ \cup {clinician}]
            /\ UNCHANGED showLoginModal
    /\ UNCHANGED <<user, isAuthenticated, loading, mounted, pending, last_request,
                   selectedClinician, showDetailModal, tracked, engineVars, buildVars,
                   backendVars, appVars, loginVars, refreshVars,
                   componentVars>>

\* LoginModal onClose
CloseLoginModal ==
    /\ showLoginModal
    /\ showLoginModal' = FALSE
    /\ UNCHANGED <<selectedClinician, showDetailModal, tracked, engineVars, buildVars,
                   sessionVars, backendVars, appVars, loginVars, refreshVars,
                   componentVars>>

\* ClinicianDetailModal onClose
CloseDetailModal ==
    /\ showDetailModal
    /\ showDetailModal' = FALSE
    /\ UNCHANGED <<showLoginModal, selectedClinician, tracked, engineVars, buildVars,
                   sessionVars, backendVars, appVars, loginVars, refreshVars,
                   componentVars>>

NextInteract ==
    \/ Mount
    \/ Reload
    \/ \E id \in InteractLogins : LoginStart(id)
    \/ \E id \in InteractLogins : LoginSucceed(id)
    \/ \E id \in InteractLogins : LoginFail(id)
    \/ Logout
    \/ \E updates \in UserUpdates : UpdateUser(updates)
    \/ \E clinician \in CardIds : HandleViewClinician(clinician)
    \/ \E clinician \in CardIds : HandleContactClinician(clinician)
    \/ \E clinician \in CardIds : HandleScheduleClinician(clinician)
    \/ \E clinician \in CardIds : HandleSaveClinician(clinician)
    \/ CloseLoginModal
    \/ CloseDetailModal

SpecInteract == InitInteract /\ [][NextInteract]_vars

\* ------------------------------------------------------------------------
\* The search wizard (SearchForm)
\* ------------------------------------------------------------------------

\* steps.length
NUM_STEPS == 5

\* The last required step (location, appointment type, insurance)
LAST_REQUIRED_STEP == 2

MaxTimers == 2

MaxSearches == 2

\* validateStep: the fields of newErrors for the step
validateStep(formData, stepIndex) ==
    IF stepIndex = 0 /\ formData.state = "" THEN {"state"}
    ELSE IF stepIndex = 1 /\ formData.appointment_type = "" THEN {"appointment_type"}
    ELSE IF stepIndex = 2 /\ formData.insurance_provider = ""
         THEN {"insurance_provider"}
    ELSE {}

\* The steps the loop of handleSubmit stops at: those up to `last` that fail
invalid_steps(formData, last) ==
    {i \in 0..last : validateStep(formData, i) # {}}

\* cleanedData of handleSubmit
cleanedData(formData) ==
    [formData EXCEPT
        !.clinical_needs = IF formData.appointment_type = "medication" THEN {} ELSE @,
        !.language = IF @ = "English" THEN "" ELSE @]

\* The field edits the step on screen offers
StepEdits(step) ==
    IF step = 0 THEN {<<"state", "">>, <<"state", "CA">>}
    ELSE IF step = 1 THEN {<<"appointment_type", "therapy">>,
                           <<"appointment_type", "medication">>}
    ELSE IF step = 2 THEN {<<"insurance_provider", "">>,
                           <<"insurance_provider", "Aetna">>}
    ELSE IF step = 3 THEN {<<"language", "">>, <<"language", "English">>}
    ELSE {}

InitWizard ==
    /\ EngineState(IdleRequest, IdlePool, "idle", <<>>, <<>>, NoFavorites,
                   EmptyMatrix, {})
    /\ BuildIdle
    /\ SessionIdle
    /\ OtherIdle

\* handleChange(field, value)
HandleChange(field, value) ==
    /\ <<field, value>> \in StepEdits(searchForm.currentStep)
    /\ searchForm' = [searchForm EXCEPT !.formData[field] = value,
                                        !.errors = @ \ {field}]
    /\ UNCHANGED <<loginModal, clinicianList, engineVars, buildVars, sessionVars,
                   backendVars, appVars, loginVars, refreshVars, interactVars>>

\* toggleArrayField('clinical_needs', need)
ToggleArrayField(need) ==
    /\ searchForm.currentStep = 3
    /\ searchForm' = [searchForm EXCEPT
                         !.formData.clinical_needs =
                             IF need \in @ THEN @ \ {need} ELSE @ \cup {need}]
    /\ UNCHANGED <<loginModal, clinicianList, engineVars, buildVars, sessionVars,
                   backendVars, appVars, loginVars, refreshVars, interactVars>>

\* handleNext: the Continue button, on screen before the last step
HandleNext ==
    /\ searchForm.currentStep < NUM_STEPS - 1
    /\ Len(searchForm.timers) < MaxTimers
    /\ LET newErrors == validateStep(searchForm.formData, searchForm.currentStep)
       IN  searchForm' =
               IF newErrors = {}
               THEN [searchForm EXCEPT !.errors = newErrors,
                                       !.isAnimating = TRUE,
                                       !.timers = Append(@, "next")]
               ELSE [searchForm EXCEPT !.errors = newErrors]
    /\ UNCHANGED <<loginModal, clinicianList, engineVars, buildVars, sessionVars,
                   backendVars, appVars, loginVars, refreshVars, interactVars>>

\* handlePrev: the Previous button, disabled on the first step
HandlePrev ==
    /\ searchForm.currentStep # 0
    /\ Len(searchForm.timers) < MaxTimers
    /\ searchForm' = [searchForm EXCEPT !.isAnimating = TRUE,
                                        !.timers = Append(@, "prev")]
    /\ UNCHANGED <<loginModal, clinicianList, engineVars, buildVars, sessionVars,
                   backendVars, appVars, loginVars, refreshVars, interactVars>>

\* The oldest 300 ms timer of handleNext or handlePrev fires
StepTimer ==
    /\ searchForm.timers # <<>>
    /\ searchForm' =
           [searchForm EXCEPT
               !.currentStep = IF Head(searchForm.timers) = "next"
                               THEN Min(@ + 1, NUM_STEPS - 1)
                               ELSE Max(@ - 1, 0),
               !.isAnimating = FALSE,
               !.timers = Tail(@)]
    /\ UNCHANGED <<loginModal, clinicianList, engineVars, buildVars, sessionVars,
                   backendVars, appVars, loginVars, refreshVars, interactVars>>

\* Mutant: the loop of handleSubmit stops one step early
HandleSubmit_two_steps ==
    /\ searchForm.currentStep > LAST_REQUIRED_STEP
    /\ LET failed == invalid_steps(searchForm.formData, LAST_REQUIRED_STEP - 1)
           first == CHOOSE i \in failed : \A k \in failed : i <= k
       IN  IF failed # {}
           THEN /\ searchForm' =
                       [searchForm EXCEPT
                           !.errors = validateStep(searchForm.formData, first),
                           !.currentStep = first]
                /\ UNCHANGED searchParams
           ELSE /\ searchForm.onSearch_calls < MaxSearches
                /\ searchParams' = cleanedData(searchForm.formData)
                /\ searchForm' = SearchFormMounted(cleanedData(searchForm.formData),
                                                   searchForm.onSearch_calls + 1)
    /\ UNCHANGED <<currentView, searchResults, searching, error, in_flight,
                   loginModal, clinicianList, engineVars, buildVars, sessionVars,
                   backendVars, loginVars, refreshVars, interactVars>>

\* handleSubmit, behind "Skip & Search" and "Find My Match" (on screen from
\* the first optional step on).  onSearch is the prop: the call is counted
\* and its argument becomes searchParams; the form the user finds on coming
\* back from the results is a new one, mounted with those initialValues.
HandleSubmit ==
    /\ searchForm.currentStep > LAST_REQUIRED_STEP
    /\ LET failed == invalid_steps(searchForm.formData, LAST_REQUIRED_STEP)
           first == CHOOSE i \in failed : \A k \in failed : i <= k
       IN  IF failed # {}
           THEN /\ searchForm' =
                       [searchForm EXCEPT
                           !.errors = validateStep(searchForm.formData, first),
                           !.currentStep = first]
                /\ UNCHANGED searchParams
           ELSE /\ searchForm.onSearch_calls < MaxSearches
                /\ searchParams' = cleanedData(searchForm.formData)
                /\ searchForm' = SearchFormMounted(cleanedData(searchForm.formData),
                                                   searchForm.onSearch_calls + 1)
    /\ UNCHANGED <<currentView, searchResults, searching, error, in_flight,
                   loginModal, clinicianList, engineVars, buildVars, sessionVars,
                   backendVars, loginVars, refreshVars, interactVars>>

NextWizard ==
    \/ \E edit \in UNION {StepEdits(step) : step \in 0..NUM_STEPS - 1} :
           HandleChange(edit[1], edit[2])
    \/ ToggleArrayField("anxiety")
    \/ HandleNext
    \/ HandlePrev
    \/ StepTimer
    \/ HandleSubmit

SpecWizard == InitWizard /\ [][NextWizard]_vars

\* ------------------------------------------------------------------------
\* The login modal (LoginModal)
\* ------------------------------------------------------------------------

\* Header's "Sign In": onLoginClick
OnLoginClick ==
    /\ mounted
    /\ ~showLoginModal
    /\ showLoginModal' = TRUE
    /\ UNCHANGED <<selectedClinician, showDetailModal, tracked, engineVars, buildVars,
                   sessionVars, backendVars, appVars, loginVars, refreshVars,
                   componentVars>>

\* onChange of the user id input, which is disabled while loading
SetUserId(id) ==
    /\ mounted
    /\ showLoginModal
    /\ ~loginModal.loading
    /\ loginModal.userId # id
    /\ loginModal' = [loginModal EXCEPT !.userId = id]
    /\ UNCHANGED <<searchForm, clinicianList, engineVars, buildVars, sessionVars,
                   backendVars, appVars, loginVars, refreshVars, interactVars>>

\* LoginModal.handleSubmit up to the await of login(); the submit button is
\* disabled while loading or while the user id is empty
LoginModalSubmit ==
    /\ showLoginModal
    /\ ~loginModal.loading
    /\ loginModal.userId # ""
    /\ loginModal' = [loginModal EXCEPT !.error = "", !.loading = TRUE,
                                        !.pc = "awaiting"]
    /\ login_begin(loginModal.userId)
    /\ UNCHANGED <<searchForm, clinicianList>>

\* LoginModal.handleSubmit after login() resolved
LoginModalResume ==
    /\ loginModal.pc = "awaiting"
    /\ loginModal.userId \notin pending
    /\ login_result.user_id = loginModal.userId
    /\ loginModal' = IF login_result.success
                     THEN [loginModal EXCEPT !.pc = "closing"]
                     ELSE [loginModal EXCEPT !.error = login_result.error,
                                             !.loading = FALSE, !.pc = "idle"]
    /\ UNCHANGED <<searchForm, clinicianList, engineVars, buildVars, sessionVars,
                   backendVars, appVars, loginVars, refreshVars, interactVars>>

\* The 500 ms timer set after a successful login
LoginModalCloseTimer ==
    /\ loginModal.pc = "closing"
    /\ loginModal' = [loginModal EXCEPT !.userId = "", !.error = "", !.pc = "idle"]
    /\ showLoginModal' = FALSE
    /\ UNCHANGED <<searchForm, clinicianList, selectedClinician, showDetailModal,
                   tracked, engineVars, buildVars, sessionVars, backendVars, appVars,
                   loginVars, refreshVars>>

\* LoginModal.handleClose: the close button (disabled while loading) and the
\* backdrop (ignored while loading)
LoginModalHandleClose ==
    /\ showLoginModal
    /\ ~loginModal.loading
    /\ loginModal' = [loginModal EXCEPT !.userId = "", !.error = ""]
    /\ showLoginModal' = FALSE
    /\ UNCHANGED <<searchForm, clinicianList, selectedClinician, showDetailModal,
                   tracked, engineVars, buildVars, sessionVars, backendVars, appVars,
                   loginVars, refreshVars>>

\* The response of GET /users/{id} arrives
LoginCompletes == \E id \in LoginIds : LoginSucceed(id) \/ LoginFail(id)

NextModal ==
    \/ Mount
    \/ Reload
    \/ OnLoginClick
    \/ \E id \in LoginIds : SetUserId(id)
    \/ LoginModalSubmit
    \/ \E id \in LoginIds : LoginSucceed(id)
    \/ \E id \in LoginIds : LoginFail(id)
    \/ LoginModalResume
    \/ LoginModalCloseTimer
    \/ LoginModalHandleClose
    \/ Logout

\* Every response arrives, every continuation and every timer runs
SpecModal ==
    /\ InitSession
    /\ [][NextModal]_vars
    /\ WF_vars(Mount)
    /\ WF_vars(LoginCompletes)
    /\ WF_vars(LoginModalResume)
    /\ WF_vars(LoginModalCloseTimer)

\* ------------------------------------------------------------------------
\* Clinician details of a result list (ClinicianList)
\* ------------------------------------------------------------------------

MaxDetailRequests == 2

\* The clinician whose match already carries avg_patient_rating
has_rating(c) == c = 3

\* cliniciansToFetch of fetchAllClinicianDetails
cliniciansToFetch(list) ==
    {c \in list.clinicians : ~has_rating(c) /\ c \notin list.clinicianDetails}

\* ClinicianList as first rendered with a result list that is not empty
InitDetails ==
    /\ EngineState(IdleRequest, IdlePool, "idle", <<>>, <<>>, NoFavorites,
                   EmptyMatrix, {})
    /\ BuildIdle
    /\ SessionIdle
    /\ InsuranceIdle /\ LoadIdle /\ AppIdle /\ LoginIdle /\ RefreshIdle /\ InteractIdle
    /\ searchForm = SearchFormMounted(EmptyDict, 0)
    /\ loginModal = LoginModalMounted
    /\ \E shown \in (SUBSET DetailIds) \ {{}} :
         clinicianList = [ClinicianListMounted EXCEPT !.clinicians = shown,
                                                      !.effect_due = TRUE]

\* The detail effect, run after a render that changed clinicianDetails or
\* fetchClinicianDetail: fetchClinicianDetail up to its await, for every
\* clinician to fetch, with the state of that render
FetchAllClinicianDetails ==
    /\ clinicianList.effect_due
    /\ LET started == cliniciansToFetch(clinicianList) \ clinicianList.loadingDetails
       IN  /\ \A c \in started : clinicianList.requests[c] < MaxDetailRequests
           /\ clinicianList' =
                  [clinicianList EXCEPT
                      !.loadingDetails = @ \cup started,
                      !.requests = [c \in DetailIds |-> IF c \in started THEN @[c] + 1
                                                        ELSE @[c]],
                      !.effect_due = started # {}]
    /\ UNCHANGED <<searchForm, loginModal, engineVars, buildVars, sessionVars,
                   backendVars, appVars, loginVars, refreshVars, interactVars>>

\* fetchClinicianDetail after its await: the response is OK and is stored
DetailOk(c) ==
    /\ c \in clinicianList.loadingDetails
    /\ clinicianList' = [clinicianList EXCEPT !.clinicianDetails = @ \cup {c},
                                              !.loadingDetails = @ \ {c},
                                              !.effect_due = TRUE]
    /\ UNCHANGED <<searchForm, loginModal, engineVars, buildVars, sessionVars,
                   backendVars, appVars, loginVars, refreshVars, interactVars>>

\* fetchClinicianDetail after its await: the response is not OK, nothing is stored
DetailNotOk(c) ==
    /\ c \in clinicianList.loadingDetails
    /\ clinicianList' = [clinicianList EXCEPT !.loadingDetails = @ \ {c},
                                              !.effect_due = TRUE]
    /\ UNCHANGED <<searchForm, loginModal, engineVars, buildVars, sessionVars,
                   backendVars, appVars, loginVars, refreshVars, interactVars>>

\* fetchClinicianDetail after its await: fetch threw, the error is logged
DetailThrow(c) ==
    /\ c \in clinicianList.loadingDetails
    /\ clinicianList' = [clinicianList EXCEPT !.loadingDetails = @ \ {c},
                                              !.logged = @ \cup {c},
                                              !.effect_due = TRUE]
    /\ UNCHANGED <<searchForm, loginModal, engineVars, buildVars, sessionVars,
                   backendVars, appVars, loginVars, refreshVars, interactVars>>

NextDetails ==
    \/ FetchAllClinicianDetails
    \/ \E c \in DetailIds : DetailOk(c)
    \/ \E c \in DetailIds : DetailNotOk(c)
    \/ \E c \in DetailIds : DetailThrow(c)

SpecDetails == InitDetails /\ [][NextDetails]_vars

\* ------------------------------------------------------------------------
\* Insurance scoring, evaluated repeatedly
\* ------------------------------------------------------------------------

MaxEvaluations == 2

\* Users that differ in more than the insurance provider
InsuranceUsers ==
    {[IdleRequest EXCEPT !.user_id = id, !.insurance_provider = provider,
                         !.urgency_level = urgency] :
        id \in {"u0", "u1"},
        provider \in Providers \cup {NoInsurance},
        urgency \in {"immediate", "flexible"}}

InitInsurance ==
    /\ EngineState(IdleRequest, IdlePool, "insurance", <<>>, <<>>, NoFavorites,
                   EmptyMatrix, {})
    /\ BuildIdle
    /\ SessionIdle
    /\ OtherIdle

\* One call of score_insurance(clinician, user), its decision and score logged
EvaluateInsurance(clinician_id, u) ==
    /\ pc = "insurance"
    /\ Len(insurance_log) < MaxEvaluations
    /\ request' = u
    /\ insurance_log' =
           Append(insurance_log,
                  [clinician_id |-> clinician_id,
                   user |-> u,
                   accepted |-> IF u.insurance_provider = NoInsurance THEN "neutral"
                                ELSE IF simulate_insurance_acceptance(
                                            clinician_id, u.insurance_provider)
                                     THEN "accepted" ELSE "rejected",
                   score |-> score_insurance(clinician_id, u)])
    /\ UNCHANGED <<pool, pc, candidates, matches, base_matches, cluster_id,
                   cluster_favorites, cf_predictions, content_scores,
                   user_item_matrix, similar_users, pre_diversity, buildVars,
                   sessionVars, loadVars, appVars, loginVars,
                   refreshVars, interactVars,
                   componentVars>>

NextInsurance ==
    \E clinician_id \in ClinicianIds, u \in InsuranceUsers :
        EvaluateInsurance(clinician_id, u)

SpecInsurance == InitInsurance /\ [][NextInsurance]_vars

\* ------------------------------------------------------------------------
\* Load balancing and the overload penalty
\* ------------------------------------------------------------------------

MaxCapacity == 20

\* Clinicians of every capacity up to MaxCapacity and every patient count up
\* to a little over capacity, established or new
LoadProfiles ==
    {[BusyProfile EXCEPT !.current_patients = cur, !.max_capacity = cap,
                         !.days_since_created = days] :
        cap \in 1..MaxCapacity, cur \in 0..(MaxCapacity + 2),
        days \in {10, 400}}

InitLoad ==
    /\ \E clinician \in LoadProfiles :
         EngineState(IdleRequest, [c \in ClinicianIds |-> clinician], "load", <<>>, <<>>,
                     NoFavorites, EmptyMatrix, {})
    /\ BuildIdle
    /\ SessionIdle
    /\ OtherIdle

\* score_load_balance(clinician), and the adjustment factors applied to a
\* score of 1.0 of the same clinician
ScoreLoad ==
    /\ pc = "load"
    /\ load_result' = [load_balance |-> score_load_balance(pool[1]),
                       adjusted |-> apply_adjustments(pool[1], ONE)]
    /\ pc' = "load_scored"
    /\ UNCHANGED <<request, pool, candidates, matches, base_matches, cluster_id,
                   cluster_favorites, cf_predictions, content_scores,
                   user_item_matrix, similar_users, pre_diversity, buildVars,
                   sessionVars, insuranceVars, specialties_score, appVars,
                   loginVars, refreshVars, interactVars,
                   componentVars>>

NextLoad == ScoreLoad

SpecLoad == InitLoad /\ [][NextLoad]_vars

\* ------------------------------------------------------------------------
\* Basic specialty matching
\* ------------------------------------------------------------------------

InitSpecialties ==
    /\ \E needs \in SUBSET ClusterNeeds, specialties \in SUBSET ClusterNeeds :
         EngineState([IdleRequest EXCEPT !.clinical_needs = needs],
                     [c \in ClinicianIds |-> [BusyProfile EXCEPT !.specialties = specialties]],
                     "specialties", <<>>, <<>>, NoFavorites, EmptyMatrix, {})
    /\ BuildIdle
    /\ SessionIdle
    /\ OtherIdle

\* score_specialties_basic(clinician, user)
ScoreSpecialties ==
    /\ pc = "specialties"
    /\ specialties_score' = score_specialties_basic(pool[1], request)
    /\ pc' = "specialties_scored"
    /\ UNCHANGED <<request, pool, candidates, matches, base_matches, cluster_id,
                   cluster_favorites, cf_predictions, content_scores,
                   user_item_matrix, similar_users, pre_diversity, buildVars,
                   sessionVars, insuranceVars, load_result, appVars,
                   loginVars, refreshVars, interactVars,
                   componentVars>>

NextSpecialties == ScoreSpecialties

SpecSpecialties == InitSpecialties /\ [][NextSpecialties]_vars

\* ------------------------------------------------------------------------
\* Matching while the reference data is refreshed in the background
\* ------------------------------------------------------------------------

\* The interaction matrix after new interactions were folded in
RefreshedMatrix ==
    [u \in OtherUsers |->
        IF u = "u1"
        THEN [c \in {1, 2} |-> IF c = 1 THEN Frac(2, 10) ELSE Frac(10, 10)]
        ELSE [c \in {1, 2, 3} |-> IF c = 3 THEN Frac(-5, 10) ELSE Frac(10, 10)]]

\* The versions of the reference data a refresh can publish
MatrixVersions == {HistoryMatrix, RefreshedMatrix}

FavoritesVersions == {NoFavorites, SomeFavorites, AllFavorites}

InitRefresh ==
    /\ \E tier \in {"basic", "complete"}, needs \in {{}, {"trauma"}},
          m \in MatrixVersions, f \in FavoritesVersions :
         EngineState([IdleRequest EXCEPT !.registration_type = tier,
                                         !.clinical_needs = needs],
                     IdlePool, "start", <<>>, <<>>, f, m, OtherUsers)
    /\ BuildIdle
    /\ SessionIdle
    /\ OtherIdle

\* The refresh builds the next interaction matrix in a copy of its own
RefreshMatrix(m) ==
    /\ staged.kind = "none"
    /\ m # user_item_matrix
    /\ staged' = [NothingStaged EXCEPT !.kind = "matrix", !.matrix = m]
    /\ UNCHANGED <<engineVars, buildVars, sessionVars,
                   backendVars, appVars, loginVars, interactVars,
                   componentVars>>

\* The refresh builds the next cluster favourites in a copy of its own
RefreshFavorites(f) ==
    /\ staged.kind = "none"
    /\ f # cluster_favorites
    /\ staged' = [NothingStaged EXCEPT !.kind = "favorites", !.favorites = f]
    /\ UNCHANGED <<engineVars, buildVars, sessionVars,
                   backendVars, appVars, loginVars, interactVars,
                   componentVars>>

\* The refresh publishes its copy: the shared name is bound to it in one step
RefreshPublish ==
    /\ staged.kind # "none"
    /\ user_item_matrix' = IF staged.kind = "matrix" THEN staged.matrix
                           ELSE user_item_matrix
    /\ cluster_favorites' = IF staged.kind = "favorites" THEN staged.favorites
                            ELSE cluster_favorites
    /\ staged' = NothingStaged
    /\ UNCHANGED <<request, pool, pc, candidates, matches, base_matches, cluster_id,
                   cf_predictions, content_scores, similar_users, pre_diversity,
                   buildVars, sessionVars, backendVars, appVars, loginVars, interactVars,
                   componentVars>>

\* The candidates predict_scores has not reached yet
unpredicted == {i \in 1..Len(candidates) : candidates[i] \notin DOMAIN cf_predictions}

\* predict_scores: one iteration of "for clinician_id in candidates", which
\* reads user_item_matrix as it is bound at that moment
PredictCandidate ==
    /\ pc = "complete_score"
    /\ unpredicted # {}
    /\ LET i == CHOOSE n \in unpredicted : \A k \in unpredicted : n <= k
           clinician_id == candidates[i]
       IN  cf_predictions' =
               DictPut(cf_predictions, clinician_id,
                       predict_scores(user_item_matrix, similar_users,
                                      {clinician_id})[clinician_id])
    /\ UNCHANGED <<request, pool, pc, candidates, matches, base_matches, cluster_id,
                   cluster_favorites, content_scores, user_item_matrix, similar_users,
                   pre_diversity, buildVars, sessionVars, otherVars>>

\* predict_scores: return predictions
PredictReturn ==
    /\ pc = "complete_score"
    /\ unpredicted = {}
    /\ pc' = "predicted"
    /\ UNCHANGED <<request, pool, candidates, matches, base_matches, cluster_id,
                   cluster_favorites, cf_predictions, content_scores, user_item_matrix,
                   similar_users, pre_diversity, buildVars, sessionVars, otherVars>>

NextRefresh ==
    \/ \E m \in MatrixVersions : RefreshMatrix(m)
    \/ \E f \in FavoritesVersions : RefreshFavorites(f)
    \/ RefreshPublish
    \/ MatchBasicBaseline
    \/ MatchBasicBoost
    \/ MatchCompleteFilter
    \/ PredictCandidate
    \/ PredictReturn

SpecRefresh == InitRefresh /\ [][NextRefresh]_vars

\* ------------------------------------------------------------------------
\* Properties
\* ------------------------------------------------------------------------

InUnitInterval(x) == 0 <= x /\ x <= ONE

\* C1: every match_score in a returned result list lies in [0, 1], whichever
\* strategy produced it and whichever adjustments (new clinician boost,
\* overload penalty, cluster boost, diversity penalty, collaborative blend)
\* were applied to it.
C1_ScoreInUnitInterval ==
    pc = "done" => \A i \in 1..Len(matches) : InUnitInterval(matches[i].score)

\* C2: what the filter stage returns is a subset of its input and every
\* returned clinician is licensed in the user's state, offers the requested
\* appointment type and accepts new patients, also when the filter chain
\* stops early because fewer than MIN_RESULTS clinicians are left.
C2_FilterSound ==
    pc = "filtered" =>
        /\ SeqRange(candidates) \subseteq DOMAIN pool
        /\ \A c \in SeqRange(candidates) : PassesHardFilters(pool[c], request)

\* C3: after apply_diversity, its final sort included, the first three
\* entries of the list are the three that were first before the call, in the
\* same order and with the same scores; no entry from position 4 or later is
\* placed above them, ties included.
C3_TopThreeUnchanged ==
    pc = "top_k" =>
        /\ Len(matches) = Len(pre_diversity)
        /\ \A i \in 1..Min(TOP_UNCHANGED, Len(pre_diversity)) :
               matches[i] = pre_diversity[i]

\* An entry below the third ties with the third before and after the call,
\* and another entry of the tail was penalised
C3_Witness ==
    /\ pc = "top_k"
    /\ Len(pre_diversity) > TOP_UNCHANGED
    /\ \E j \in (TOP_UNCHANGED + 1)..Len(pre_diversity) :
           /\ pre_diversity[j].score = pre_diversity[TOP_UNCHANGED].score
           /\ ScoreOf(matches, pre_diversity[j].clinician_id)
                  = matches[TOP_UNCHANGED].score
    /\ \E j \in (TOP_UNCHANGED + 1)..Len(pre_diversity) :
           ScoreOf(matches, pre_diversity[j].clinician_id) < pre_diversity[j].score

\* The strategy the spec assigns to a registration type
strategy_of(registration_type) ==
    IF registration_type = "complete" THEN "complete"
    ELSE IF registration_type = "basic" THEN "basic"
    ELSE "anonymous"

\* C4: the strategy a search runs is determined by the registration type of
\* the user alone: basic for "basic", complete for "complete", anonymous for
\* anything else or no user.
C4_StrategyByRegistrationType ==
    last_request.endpoint # "none" =>
        last_request.endpoint = strategy_of(last_request.user.registration_type)

\* The interactions of one user with one clinician
InteractionsOf(user_id, clinician_id) ==
    {i \in 1..Len(all_interactions) :
        /\ all_interactions[i].user_id = user_id
        /\ all_interactions[i].clinician_id = clinician_id}

\* The largest mapped score among the interactions of a pair
MaxScoreOf(user_id, clinician_id) ==
    CHOOSE s \in {interaction_to_score(all_interactions[i]) :
                     i \in InteractionsOf(user_id, clinician_id)} :
        \A i \in InteractionsOf(user_id, clinician_id) :
            interaction_to_score(all_interactions[i]) <= s

\* C5: when build_user_item_matrix has ended, every (user, clinician) pair
\* with an interaction holds the maximum of the mapped scores of its
\* interactions, a pair whose only interactions are rejections holds -0.5,
\* and every stored value lies in [-0.5, 1.0].
C5_MatrixStoresMax ==
    pc \in {"built", "KeyError"} =>
        \A i \in 1..Len(all_interactions) :
            LET user_id == all_interactions[i].user_id
                clinician_id == all_interactions[i].clinician_id
            IN  /\ user_id \in DOMAIN user_item_matrix
                /\ clinician_id \in DOMAIN user_item_matrix[user_id]
                /\ user_item_matrix[user_id][clinician_id]
                       = MaxScoreOf(user_id, clinician_id)
                /\ user_item_matrix[user_id][clinician_id] >= Frac(-5, 10)
                /\ user_item_matrix[user_id][clinician_id] <= ONE

\* C6: every score predict_scores returns lies in [0, 1], also when the
\* similar users' entries are negative.
C6_PredictionInUnitInterval ==
    pc = "predicted" =>
        \A c \in DOMAIN cf_predictions : InUnitInterval(cf_predictions[c])

\* C7: when no similar user was found, the collaborative score of every
\* candidate is exactly 0.5 and the hybrid score is 0.6 x content + 0.2,
\* which already lies in [0, 1].
C7_NeutralPrediction ==
    (pc = "sort" /\ request.registration_type = "complete" /\ similar_users = {}) =>
        /\ DOMAIN cf_predictions = SeqRange(candidates)
        /\ Len(matches) = Len(candidates)
        /\ \A i \in 1..Len(matches) :
               LET c == matches[i].clinician_id
               IN  /\ cf_predictions[c] = Frac(1, 2)
                   /\ matches[i].score = Mul(content_scores[c], 6, 10) + Frac(2, 10)
                   /\ InUnitInterval(matches[i].score)

\* Two candidates with different content scores were blended with no similar
\* user at hand, although the matrix holds other users' history
C7_Witness ==
    /\ pc = "sort"
    /\ request.registration_type = "complete"
    /\ similar_users = {}
    /\ user_item_matrix = HistoryMatrix
    /\ \E i, j \in 1..Len(matches) :
           content_scores[matches[i].clinician_id]
               < content_scores[matches[j].clinician_id]

\* The rules of the cluster assignment in their order, the last one the default
RuleHolds(k, u) ==
    CASE k = 1 -> u.appointment_type = "medication"
      [] k = 2 -> "trauma" \in u.clinical_needs
      [] k = 3 -> u.urgency_level = "immediate" /\ u.insurance_provider # NoInsurance
      [] k = 4 -> u.insurance_provider = NoInsurance /\ u.urgency_level = "flexible"
      [] k = 5 -> "couples" \in u.clinical_needs
      [] k = 6 -> u.therapy_experience = "first_time" /\ "anxiety" \in u.clinical_needs
      [] k = 7 -> u.therapy_experience = "experienced"
                      /\ Cardinality(u.clinical_needs) >= 2
      [] OTHER -> TRUE

RuleCluster == <<5, 6, 2, 3, 4, 0, 1, 7>>

NumRules == Len(RuleCluster)

FirstRule(u) ==
    CHOOSE k \in 1..NumRules :
        RuleHolds(k, u) /\ \A j \in 1..(k - 1) : ~RuleHolds(j, u)

\* C8: assign_cluster gives every user exactly one cluster of 0..7: the
\* cluster of the first rule of the priority order that matches, so that
\* medication with trauma is 5, trauma with immediate urgency and insurance
\* is 6, and a user matching no rule is 7.
C8_FirstMatchingRule ==
    pc = "clustered" =>
        /\ cluster_id \in CLUSTERS
        /\ cluster_id = RuleCluster[FirstRule(request)]
        /\ (request.appointment_type = "medication"
               /\ "trauma" \in request.clinical_needs) => cluster_id = 5
        /\ (request.appointment_type # "medication"
               /\ "trauma" \in request.clinical_needs
               /\ request.urgency_level = "immediate"
               /\ request.insurance_provider # NoInsurance) => cluster_id = 6
        /\ (\A k \in 1..(NumRules - 1) : ~RuleHolds(k, request)) => cluster_id = 7

\* A medication user with a trauma need was assigned cluster 5
C8_Witness ==
    /\ pc = "clustered"
    /\ request.appointment_type = "medication"
    /\ "trauma" \in request.clinical_needs
    /\ request.urgency_level = "immediate"
    /\ request.insurance_provider # NoInsurance
    /\ cluster_id = 5

\* The clinicians of the pool that pass the three hard filters
Eligible == {c \in ClinicianIds : PassesHardFilters(pool[c], request)}

\* C9: an anonymous result is the filtered candidates sorted by score
\* descending, ties by clinician id ascending, cut to the first 5, or to the
\* requested limit when one was given.
C9_AnonymousTopK ==
    (pc = "done" /\ request.registration_type = "anonymous") =>
        /\ IsRanked(matches)
        /\ IdsOf(matches) \subseteq Eligible
        /\ Len(matches) = Min(IF request.limit # 0 THEN request.limit
                              ELSE TOP_K_ANONYMOUS,
                              Cardinality(Eligible))

\* C10: a basic result with no explicit limit holds min(9, n) entries, n the
\* number of clinicians passing the hard filters.
C10_BasicCount ==
    (pc = "done" /\ request.registration_type = "basic" /\ request.limit = 0) =>
        Len(matches) = Min(TOP_K_DEFAULT, Cardinality(Eligible))

\* C11: in the basic strategy the cluster boost multiplies by 1.15 the score
\* of exactly the baseline matches whose clinician is a favourite of the
\* user's cluster; every other match keeps its baseline score, and the match
\* set is the baseline's, nobody added and nobody removed.
C11_ClusterBoostFrame ==
    (pc = "sort" /\ request.registration_type = "basic") =>
        /\ cluster_id = assign_cluster(request)
        /\ Len(matches) = Len(base_matches)
        /\ \A i \in 1..Len(matches) :
               /\ matches[i].clinician_id = base_matches[i].clinician_id
               /\ IF matches[i].clinician_id \in cluster_favorites[cluster_id]
                  THEN /\ matches[i].score % 115 = 0
                       /\ (matches[i].score \div 115) * 100 = base_matches[i].score
                  ELSE matches[i].score = base_matches[i].score

\* A baseline with a favourite that was boosted and a non-favourite that was not
C11_Witness ==
    /\ pc = "sort"
    /\ request.registration_type = "basic"
    /\ \E i, j \in 1..Len(matches) :
           /\ matches[i].clinician_id \in cluster_favorites[cluster_id]
           /\ matches[i].score > base_matches[i].score
           /\ matches[j].clinician_id \notin cluster_favorites[cluster_id]
           /\ matches[j].score = base_matches[j].score
           /\ matches[j].score > 0

WeightSum(w) ==
    w.availability + w.insurance + w.specialties + w.load_balance + w.preferences

\* The weight profile the scoring formula uses for a user
ProfileOf(u) ==
    IF u.urgency_level = "immediate" THEN WEIGHTS_URGENT ELSE WEIGHTS_FLEXIBLE

\* C13: in each weight profile, urgent and flexible, the five weights
\* (availability, insurance, specialties, load balance, preferences) sum to
\* exactly 1.0, so factors that are all 1.0 give a weighted sum of exactly 1.0
\* for whichever profile the request selects.
C13_WeightsSumToOne ==
    /\ WeightSum(WEIGHTS_URGENT) = 100
    /\ WeightSum(WEIGHTS_FLEXIBLE) = 100
    /\ DOMAIN WEIGHTS_URGENT = DOMAIN WEIGHTS_FLEXIBLE
    /\ Cardinality(DOMAIN WEIGHTS_URGENT) = 5
    /\ LET w == ProfileOf(request)
       IN  Mul(ONE, w.availability, 100) + Mul(ONE, w.insurance, 100)
             + Mul(ONE, w.specialties, 100) + Mul(ONE, w.load_balance, 100)
             + Mul(ONE, w.preferences, 100) = ONE

\* Candidates were scored with the flexible profile
C13_Witness ==
    /\ pc = "anonymous_top_k"
    /\ request.urgency_level = "flexible"
    /\ Len(matches) > 0

\* load_ratio < n/20, on the integers
RatioBelow(clinician, n) == 20 * clinician.current_patients < n * clinician.max_capacity

\* load_ratio > n/20, on the integers
RatioAbove(clinician, n) == 20 * clinician.current_patients > n * clinician.max_capacity

\* C14: for a clinician with a positive capacity the load-balance score is
\* 1.0 below a load ratio of 0.5, 0.8 from 0.5 to below 0.7, 0.6 from 0.7 to
\* below 0.85 and 0.3 from 0.85 on; the overload penalty x0.7 applies exactly
\* when the ratio is above 0.85, so a penalised clinician always has a
\* load-balance score of 0.3, and 9 of 10 gives 0.3 with the penalty.
C14_LoadBalance ==
    pc = "load_scored" =>
        LET clinician == pool[1]
            unpenalised == IF clinician.days_since_created < NEW_CLINICIAN_DAYS
                           THEN Frac(11, 10) ELSE ONE
            penalised == load_result.adjusted # unpenalised
        IN  /\ clinician.max_capacity > 0
            /\ RatioBelow(clinician, 10) => load_result.load_balance = Frac(10, 10)
            /\ (~RatioBelow(clinician, 10) /\ RatioBelow(clinician, 14))
                  => load_result.load_balance = Frac(8, 10)
            /\ (~RatioBelow(clinician, 14) /\ RatioBelow(clinician, 17))
                  => load_result.load_balance = Frac(6, 10)
            /\ ~RatioBelow(clinician, 17) => load_result.load_balance = Frac(3, 10)
            /\ penalised <=> RatioAbove(clinician, 17)
            /\ penalised => /\ load_result.adjusted = Mul(unpenalised, 7, 10)
                            /\ load_result.load_balance = Frac(3, 10)
            /\ (clinician.current_patients = 9 /\ clinician.max_capacity = 10)
                  => (load_result.load_balance = Frac(3, 10) /\ penalised)

\* Scenario D: 9 of 10 scored 0.3 and penalised
C14_Witness ==
    /\ pc = "load_scored"
    /\ pool[1].current_patients = 9
    /\ pool[1].max_capacity = 10
    /\ pool[1].days_since_created >= NEW_CLINICIAN_DAYS
    /\ load_result = [load_balance |-> Frac(3, 10), adjusted |-> Frac(7, 10)]

\* C15: the basic specialties score never divides by zero: for a user with
\* no clinical needs it is exactly 0.5 whatever the clinician's specialties;
\* otherwise it is |needs /\ specialties| / |needs|, a value in [0, 1].
C15_SpecialtiesBasic ==
    pc = "specialties_scored" =>
        LET needs == request.clinical_needs
            overlap == needs \cap pool[1].specialties
        IN  /\ needs = {} => specialties_score = Frac(1, 2)
            /\ needs # {} =>
                   specialties_score * Cardinality(needs) = ONE * Cardinality(overlap)
            /\ InUnitInterval(specialties_score)

\* A user without clinical needs scored 0.5 against a clinician with specialties
C15_Witness ==
    /\ pc = "specialties_scored"
    /\ request.clinical_needs = {}
    /\ pool[1].specialties # {}
    /\ specialties_score = Frac(1, 2)

\* No clinician of the backend passes the hard filters of a request
NobodyPasses(prefs) == \A c \in ClinicianIds : ~PassesHardFilters(pool[c], prefs)

\* C16: a match request for which no clinician passes the hard filters is a
\* non-error outcome: once it is answered, the match list is empty, the
\* error state is unset and the result view shows the 'No matches found'
\* empty state, not an error.
C16_EmptyResultIsNoError ==
    (currentView = "search-results" /\ searchResults.exists /\ in_flight = {}
        /\ NobodyPasses(searchResults.request)) =>
        /\ searchResults.matches = <<>>
        /\ error = NoError
        /\ MainView = "empty"

\* C17: a login for a user id the backend does not know resolves to
\* {success: false, error: message} after a single GET /users/{id} request,
\* and leaves user null, isAuthenticated false, no 'lunajoy_user' entry in
\* localStorage and loading false.
C17_UnknownLoginFails ==
    [][\A id \in LoginIds :
         (/\ \A u \in KnownUsers : u.user_id # id
          /\ id \in pending
          /\ id \notin pending'
          /\ mounted')
         => /\ login_result' = [user_id |-> id, success |-> FALSE,
                                error |-> error_message(id), requests |-> 1]
            /\ login_result'.error # Undefined
            /\ user' = NullUser
            /\ isAuthenticated' = FALSE
            /\ ~localStorage'.lunajoy_user.exists
            /\ loading' = FALSE]_vars

\* An unknown id was refused and the call has returned
C17_Witness ==
    /\ login_result.user_id = "unknown_user"
    /\ ~login_result.success
    /\ login_result.requests = 1
    /\ user = NullUser
    /\ ~localStorage.lunajoy_user.exists
    /\ ~loading

C19_NoBrowserStorage ==
    /\ ~localStorage.lunajoy_user.exists
    /\ localStorage.last_search = EmptyDict
    /\ localStorage.saved_clinicians = {}

\* C20: saving, contacting and booking require sign-in.  A step taken while
\* isAuthenticated is false sends no tracking request and leaves
\* 'saved_clinicians' as it was; handleSaveClinician, handleContactClinician
\* and handleScheduleClinician then open the login modal and change nothing
\* else; and every tracking request, view tracking included, is sent while
\* authenticated and carries the id of the user signed in.
C20_SignInRequired ==
    [][/\ ~isAuthenticated =>
            /\ tracked' = tracked
            /\ localStorage'.saved_clinicians = localStorage.saved_clinicians
       /\ \A clinician \in CardIds :
            (/\ ~isAuthenticated
             /\ \/ HandleSaveClinician(clinician)
                \/ HandleContactClinician(clinician)
                \/ HandleScheduleClinician(clinician))
            => /\ showLoginModal' = TRUE
               /\ UNCHANGED <<sessionVars, selectedClinician, showDetailModal,
                              tracked>>
       /\ tracked' # tracked =>
            /\ isAuthenticated
            /\ user.exists
            /\ Len(tracked') = Len(tracked) + 1
            /\ tracked'[Len(tracked')].user_id = user.user_id]_vars

\* Signed out again after tracked and saved interactions, with a user
\* object set by updateUser, and a handler has opened the login modal
C20_Witness ==
    /\ mounted
    /\ ~isAuthenticated
    /\ user.exists
    /\ showLoginModal
    /\ Len(tracked) = MaxTracked
    /\ localStorage.saved_clinicians # {}

\* C21: SearchForm invokes onSearch only when state, appointment_type and
\* insurance_provider are all non-empty, whatever clicks and edits came
\* before; a submit that fails validation moves the wizard to the first
\* invalid required step and sends nothing.
C21_SubmitValidates ==
    [][/\ searchForm'.onSearch_calls # searchForm.onSearch_calls =>
            /\ searchForm.formData.state # ""
            /\ searchForm.formData.appointment_type # ""
            /\ searchForm.formData.insurance_provider # ""
            /\ searchParams' = cleanedData(searchForm.formData)
       /\ (HandleSubmit /\ invalid_steps(searchForm.formData, LAST_REQUIRED_STEP) # {}) =>
            /\ searchForm'.currentStep \in
                   invalid_steps(searchForm.formData, LAST_REQUIRED_STEP)
            /\ \A i \in invalid_steps(searchForm.formData, LAST_REQUIRED_STEP) :
                   searchForm'.currentStep <= i
            /\ searchForm'.onSearch_calls = searchForm.onSearch_calls
            /\ searchParams' = searchParams]_vars

\* A submit without an insurance provider was sent back to the insurance
\* step after an earlier submit had gone through
C21_Witness ==
    /\ searchForm.onSearch_calls > 0
    /\ searchForm.currentStep = 2
    /\ searchForm.formData.insurance_provider = ""
    /\ searchForm.formData.state # ""
    /\ searchForm.errors = {"insurance_provider"}
    /\ searchForm.timers = <<>>
    /\ searchParams # EmptyDict

\* C26: a required step cannot be skipped, however Continue and Previous
\* clicks interleave with their timers: currentStep >= 3 implies that state
\* and insurance_provider are non-empty, and currentStep stays within 0..4.
C26_RequiredStepsNotSkipped ==
    /\ searchForm.currentStep \in 0..NUM_STEPS - 1
    /\ searchForm.currentStep > LAST_REQUIRED_STEP =>
           /\ searchForm.formData.state # ""
           /\ searchForm.formData.insurance_provider # ""

\* C22: in every state of UserProvider with the mount effect run and no
\* login call in flight, isAuthenticated is true exactly when user is
\* non-null, and exactly when localStorage holds a 'lunajoy_user' entry.
C22_SessionConsistent ==
    (mounted /\ pending = {}) =>
        /\ isAuthenticated <=> user.exists
        /\ isAuthenticated <=> localStorage.lunajoy_user.exists

\* C23: once a login attempt made from the modal has completed, with success
\* or with failure, the modal's loading flag eventually returns to false.
C23_LoadingReturns ==
    (loginModal.pc = "awaiting" /\ loginModal.userId \notin pending)
        ~> (loginModal.loading = FALSE)

\* C24: whenever a search request has failed, the page eventually shows the
\* error message, from whatever state the search was started.
C24_ErrorShown == (error # NoError) ~> (MainView = "error")

\* C25: while a search request is in flight the loading flag is set, and once
\* every request has completed the stored result is the response to the search
\* submitted last, the one kept in searchParams.
C25_LatestSearchWins ==
    /\ in_flight # {} => searching
    /\ (in_flight = {} /\ searchResults.exists /\ error = NoError) =>
           searchResults.request =
               SearchRequest(searchParams, searchResults.request.registration_type)

\* C27: the detail of a clinician of the result list is requested at most
\* once, also when its request throws or is answered with a status that is
\* not OK; a clinician that carries a rating is never requested.
C27_DetailRequestedOnce ==
    \A c \in DetailIds :
        /\ clinicianList.requests[c] <= 1
        /\ has_rating(c) => clinicianList.requests[c] = 0

====
